---- MODULE Spec2Model ----
(***************************************************************************)
(* Model of the trading bot's execution core:                              *)
(*   - bot/execution_loop.py  ExecutionLoop (run, check_signals,           *)
(*     execute_signal, monitor_positions, close_position)                  *)
(*   - core/exchange.py       BinanceExchangeWrapper (order placement with *)
(*     retries, position query, close, the balance and price caches, the   *)
(*     rate-limit backoff)                                                 *)
(*   - core/database.py       RedisManager (signals, positions, trades)    *)
(*   - bot/main.py            reconcile_positions                          *)
(*   - api/routes/control.py  emergency_stop                               *)
(*                                                                         *)
(* Units.  Prices and stop levels are in cents.  Quantities are in units   *)
(* of 1/10000 of the base asset (QtyScale units make 1.0), so that a       *)
(* quantity before rounding to the exchange step (1/1000) can differ from  *)
(* the rounded one.  A position's size is quantity * price, in             *)
(* 1/10000 cent.  Time is abstract: a signal is "fresh" until it is older  *)
(* than the 300 s staleness window, then "stale" for good.                 *)
(***************************************************************************)
EXTENDS Integers, Sequences, FiniteSets, TLC

VARIABLES
    \* ---- store (core/database.py) ----
    signals,            \* pair -> latest signal (NoSignal when the list is empty)
    positions,          \* set of open Position records ("positions:active")
    trades,             \* sequence of Trade records, oldest first
    initial_capital,    \* "capital:initial" in cents (0 when unset)
    \* ---- exchange ----
    exPos,              \* pair -> signed net quantity held on the exchange
    symbol_info,        \* TRUE when _symbol_info_cache holds the pair's step size
    \* ---- ExecutionLoop object and the position of run() ----
    pc,                 \* where run() stands
    idx,                \* index into pairs_list inside check_signals
    monLeft,            \* positions of monitor_positions' snapshot not yet visited
    consecutive_losses,
    daily_trades_count,
    attempted_signals,  \* _attempted_signals
    drawdown,           \* run()'s local `drawdown`, in 1/100 percent (NotComputed before it is set)
    max_positions,      \* settings.max_positions
    exe,                \* locals of the last execute_signal call
    cls,                \* locals of the last close_position call
    \* ---- startup reconciliation and the emergency-stop route ----
    rpc,                \* where reconcile_positions stands
    ridx,               \* index into pairs_list inside reconcile_positions
    redis_positions,    \* reconcile_positions' snapshot of the store
    epc,                \* where emergency_stop stands
    eLeft,              \* positions of emergency_stop's snapshot not yet visited
    \* ---- place_market_order seen alone ----
    ord,                \* the call's inputs and, once it returned, its result
    \* ---- the gateway object seen alone ----
    gw,                 \* the clock, the rate-limit backoff state and the TTL caches
    call,               \* the last gateway call: its inputs and what it did
    ghist,              \* times of the last successful queries, length of the last backoff window
    \* ---- the notifier, the safeguard engine, the process ----
    tg,                 \* TelegramNotifier: whether it is configured, and its last send_message call
    sg,                 \* the last validate_trade call: its inputs and, once it returned, its report
    boots,              \* number of times the process has been restarted
    daily_count_key,    \* "trades:daily_count:<today>" in the store (0 when the key is absent)
    made,               \* signal id -> place_market_order calls and Positions saved for it, over all runs of the process
    \* ---- history ----
    notes,              \* notifications sent by the operation in progress (breaker, open, close, routine)
    execCount,          \* signal id -> number of execute_signal calls for it
    nextSig,            \* next signal id the pipeline will hand out
    nextPos             \* next position id (uuid4 stand-in)

storeVars == <<signals, positions, trades, initial_capital>>
exchVars  == <<exPos, symbol_info>>
loopVars  == <<pc, idx, monLeft, consecutive_losses, daily_trades_count,
               attempted_signals, drawdown, max_positions, exe, cls>>
reconVars == <<rpc, ridx, redis_positions, epc, eLeft>>
histVars  == <<notes, execCount, nextSig, nextPos>>
gateVars  == <<gw, call, ghist>>
auxVars   == <<tg, sg, boots, daily_count_key, made>>
vars == <<storeVars, exchVars, loopVars, reconVars, ord, gateVars, auxVars, histVars>>

----------------------------------------------------------------------------
(* Bounds of the model *)

\* number of signals the advisory pipeline saves in one behaviour
MaxSignals == 2
\* the same, in the specification that follows the loop to the
\* consecutive-loss breaker (three positions have to be opened and closed)
MaxLossSignals == 3
\* number of steps of the clock in the specification of the gateway object
MaxTicks == 5
\* the same, in the specification of the two cached queries
MaxCacheTicks == 4

----------------------------------------------------------------------------
(* Program constants *)

\* settings.trading_pairs
pairs_list == <<"BTC/USDT", "ETH/USDT">>
Pairs == {pairs_list[i] : i \in 1..Len(pairs_list)}

\* check_signals / monitor_positions: confidence threshold
MinConfidence == 60
\* run(): settings.max_drawdown * 100, in 1/100 percent (0.20 * 100 = 20 %)
MaxDrawdownPct100 == 2000
\* run(): consecutive-loss threshold
LossLimit == 3
\* run(): daily trade cap
DailyLimit == 10
\* execute_signal: MIN_NOTIONAL = 100.0 (in cents)
MIN_NOTIONAL == 10000
\* the LOT_SIZE step and the default 3-decimals grid (0.001), in quantity units
StepUnits == 10
\* quantity units per 1.0 of the base asset
QtyScale == StepUnits * 1000
\* place_market_order: range(3)
MaxAttempts == 3
\* close_position: fees = size * 0.0004 * 2, i.e. size / FeeDivisor
FeeDivisor == 1250

NotComputed == 0 - 1

Actions == {"BUY", "SELL", "HOLD"}

NoSignal == [id |-> 0, action |-> "HOLD", confidence |-> 0, age |-> "stale"]

Abs(x) == IF x < 0 THEN 0 - x ELSE x

RoundHalfEven(n, d) ==
    \* Python's round() of n/d to an integer (ties to the even neighbour), n >= 0
    LET q == n \div d
        r == n % d
    IN  IF 2 * r > d THEN q + 1
        ELSE IF 2 * r < d THEN q
        ELSE IF q % 2 = 0 THEN q ELSE q + 1

----------------------------------------------------------------------------
(* core/exchange.py: BinanceExchangeWrapper *)

\* The quantities below 0.52 for which the double `quantity / step_size`
\* (step_size 0.001) lies under the exact quotient: they are on the step
\* grid, and math.floor gives one step less than the quantity holds
\* (0.043 / 0.001 = 42.99999999999999).  No quantity of the model's
\* resolution lies above its exact quotient's floor.
ShortQuotients ==
    {430, 510, 590, 710, 860, 870, 1020, 1030, 1180, 1190, 1410, 1420, 1430,
     1720, 1730, 1740, 1750, 2040, 2050, 2060, 2070, 2350, 2360, 2370, 2380,
     2390, 2820, 2830, 2840, 2850, 2860, 2870, 3440, 3450, 3460, 3470, 3480,
     3490, 3500, 3510, 4070, 4080, 4090, 4100, 4110, 4120, 4130, 4140, 4150,
     4690, 4700, 4710, 4720, 4730, 4740, 4750, 4760, 4770, 4780, 4790}

\* math.floor(quantity / step_size), in double arithmetic
FloorQuotient(quantity) ==
    IF quantity \in ShortQuotients
    THEN (quantity \div StepUnits) - 1
    ELSE quantity \div StepUnits

\* _round_quantity: floor to the step size when the symbol's metadata is
\* cached, otherwise round(quantity, 3)
round_quantity(has_info, quantity) ==
    IF has_info
    THEN FloorQuotient(quantity) * StepUnits
    ELSE RoundHalfEven(quantity, StepUnits) * StepUnits

\* What one futures_create_order call can do:
\*   ok             the order is accepted and the response arrives
\*   api_error      BinanceAPIException, generic message, order not accepted
\*   api_lost       BinanceAPIException (e.g. a timeout code) after the exchange accepted the order
\*   nonretryable   BinanceAPIException whose message names balance, quantity, notional or precision
\*   exception      any other exception (connection error), order not accepted
\*   exception_lost any other exception (read timeout) after the exchange accepted the order
AttemptOutcomes ==
    {"ok", "api_error", "api_lost", "nonretryable", "exception", "exception_lost"}
AttemptSeqs == [0..(MaxAttempts - 1) -> AttemptOutcomes]

Accepted(o) == IF o \in {"ok", "api_lost", "exception_lost"} THEN 1 ELSE 0
IsApiException(o) == o \in {"api_error", "api_lost", "nonretryable"}
\* faulty variant: no error message is classed as non-retryable
NonRetryable_never(o) == FALSE
\* the message names insufficient balance, invalid quantity, notional or precision
NonRetryable(o) == o = "nonretryable"

NoOrder == [order |-> FALSE, submissions |-> 0, accepted |-> 0, sleeps |-> <<>>]

\* 2 ** attempt
Pow2(n) == IF n = 0 THEN 1 ELSE IF n = 1 THEN 2 ELSE 4

\* the except-branches of place_market_order's attempt loop: TRUE when the
\* loop goes on to the next attempt after outcome o of attempt number `attempt`
RetriesAfter(o, attempt) ==
    /\ IsApiException(o)
    /\ ~NonRetryable(o)
    /\ attempt < MaxAttempts - 1

\* place_market_order's `for attempt in range(3)` loop from attempt number
\* `attempt` on; outs[a] is what the a-th futures_create_order call does
RECURSIVE order_attempts(_, _)
order_attempts(attempt, outs) ==
    IF attempt >= MaxAttempts THEN NoOrder
    ELSE LET o == outs[attempt] IN
         IF o = "ok"
         THEN [order |-> TRUE, submissions |-> 1, accepted |-> 1, sleeps |-> <<>>]
         ELSE IF RetriesAfter(o, attempt)
         THEN LET rest == order_attempts(attempt + 1, outs) IN
              [order |-> rest.order,
               submissions |-> rest.submissions + 1,
               accepted |-> rest.accepted + Accepted(o),
               sleeps |-> <<Pow2(attempt)>> \o rest.sleeps]
         ELSE [order |-> FALSE, submissions |-> 1, accepted |-> Accepted(o),
               sleeps |-> <<>>]

\* place_market_order(symbol, side, quantity): round, refuse a quantity of 0,
\* then run the attempts.  `sent` is the quantity of every submission.
place_market_order(has_info, quantity, outs) ==
    LET sent == round_quantity(has_info, quantity) IN
    IF sent <= 0
    THEN [order |-> FALSE, submissions |-> 0, accepted |-> 0, sleeps |-> <<>>, sent |-> 0]
    ELSE LET r == order_attempts(0, outs) IN
         [order |-> r.order, submissions |-> r.submissions, accepted |-> r.accepted,
          sleeps |-> r.sleeps, sent |-> sent]

\* the runs of the attempt loop as the callers see them: whether an order
\* came back and how many submissions the exchange accepted
OrderRuns ==
    {[order |-> r.order, accepted |-> r.accepted] :
        r \in {order_attempts(0, outs) : outs \in AttemptSeqs}}

\* the runs in which every failed submission was refused by the exchange
CleanRuns ==
    {[order |-> r.order, accepted |-> r.accepted] :
        r \in {order_attempts(0, outs) :
                 outs \in [0..(MaxAttempts - 1) ->
                             {"ok", "api_error", "nonretryable", "exception"}]}}

\* the exchange's net position after `accepted` orders of `qty` on `side`
Fill(cur, side, qty, accepted) ==
    IF side = "BUY" THEN cur + accepted * qty ELSE cur - accepted * qty

\* get_position_info: the exchange's answer, None on BinanceAPIException;
\* any other exception propagates to the caller
InfoOutcomes == {"ok", "api_error", "exception"}
get_position_info(cur, info) ==
    IF info = "exception" THEN [raised |-> TRUE, found |-> FALSE, side |-> "NONE", quantity |-> 0]
    ELSE IF info = "api_error" \/ cur = 0
    THEN [raised |-> FALSE, found |-> FALSE, side |-> "NONE", quantity |-> 0]
    ELSE [raised |-> FALSE, found |-> TRUE,
          side |-> IF cur > 0 THEN "LONG" ELSE "SHORT", quantity |-> Abs(cur)]

\* close_position(symbol): query, then a market order on the opposite side
\* for the reported quantity; `run` is that order's run of the attempt loop
gateway_close_position(cur, has_info, info, run) ==
    LET pos_info == get_position_info(cur, info) IN
    IF pos_info.raised \/ ~pos_info.found
    THEN [success |-> FALSE, ordered |-> FALSE, newPos |-> cur]
    ELSE LET side == IF pos_info.side = "LONG" THEN "SELL" ELSE "BUY"
             sent == round_quantity(has_info, pos_info.quantity)
         IN  IF sent <= 0
             THEN [success |-> FALSE, ordered |-> FALSE, newPos |-> cur]
             ELSE [success |-> run.order, ordered |-> TRUE,
                   newPos |-> Fill(cur, side, sent, run.accepted)]

----------------------------------------------------------------------------
(* core/exchange.py: the TTL caches and the rate-limit backoff state.     *)
(* Times are in seconds; all time.time() reads of one call give the same  *)
(* value.                                                                 *)

\* self._PRICE_CACHE_TTL
PRICE_CACHE_TTL == 30
\* self._BALANCE_CACHE_TTL
BALANCE_CACHE_TTL == 300
\* self._backoff_seconds at construction and after a reset
InitialBackoff == 60
\* self._MAX_BACKOFF
MAX_BACKOFF == 600

Min(a, b) == IF a < b THEN a ELSE b

\* time.time() when the wrapper is constructed: any value further from 0
\* than the longest TTL, as the epoch clock is
StartTime == 2 * BALANCE_CACHE_TTL

NoEntry == [cached |-> FALSE, price |-> 0, ts |-> 0]

\* the wrapper after __init__
NoGw == [now |-> StartTime,
         rate_limited_until |-> 0,
         backoff_seconds |-> InitialBackoff,
         balance_cache |-> [balance |-> 0, ts |-> 0],
         price_cache |-> [q \in Pairs |-> NoEntry]]

\* no gateway call has been made yet
NoCall == [op |-> "none"]
\* no query has succeeded and no backoff window has been opened yet
NoHist == [balance_q |-> 0, price_q |-> [q \in Pairs |-> 0], prev_window |-> 0]

\* What one outbound query can do:
\*   ok          the answer arrives
\*   rate_limit  BinanceAPIException with code -1003
\*   api_error   BinanceAPIException with any other code
\*   exception   any other exception (connection error, read timeout)
\*   no_usdt     (balance only) the answer arrives without a USDT row
QueryOutcomes == {"ok", "rate_limit", "api_error", "exception"}
BalanceOutcomes == QueryOutcomes \cup {"no_usdt"}

\* faulty variant: the window that ran out is never cleared
is_rate_limited_noreset(g) ==
    [limited |-> g.now < g.rate_limited_until, gw |-> g]

\* _is_rate_limited: TRUE inside the window; the first test after the
\* window's end clears the window and resets the backoff
is_rate_limited(g) ==
    IF g.now < g.rate_limited_until
    THEN [limited |-> TRUE, gw |-> g]
    ELSE IF g.rate_limited_until > 0 /\ g.now >= g.rate_limited_until
    THEN [limited |-> FALSE,
          gw |-> [g EXCEPT !.rate_limited_until = 0,
                           !.backoff_seconds = InitialBackoff]]
    ELSE [limited |-> FALSE, gw |-> g]

\* _handle_rate_limit(error): only code -1003 opens a window
handle_rate_limit(g, out) ==
    IF out = "rate_limit"
    THEN [g EXCEPT !.rate_limited_until = g.now + g.backoff_seconds,
                   !.backoff_seconds = Min(g.backoff_seconds * 2, MAX_BACKOFF)]
    ELSE g

\* what a gateway operation did: the wrapper afterwards, the value returned
\* (0 for None, [] and False; 1 for a non-empty answer and True), whether
\* it raised, the number of outbound exchange calls, whether it evaluated
\* _is_rate_limited, and whether an outbound call came back with -1003
Did(g, result, raised, outbound, checked, signal) ==
    [gw |-> g, result |-> result, raised |-> raised, outbound |-> outbound,
     checked |-> checked, signal |-> signal]

\* faulty variant: an entry exactly as old as the TTL still counts as fresh
BalanceFresh_atmost(g) == g.now - g.balance_cache.ts <= BALANCE_CACHE_TTL

\* `if now - self._balance_cache["ts"] < self._BALANCE_CACHE_TTL`
BalanceFresh(g) == g.now - g.balance_cache.ts < BALANCE_CACHE_TTL

\* `if cached and now - cached["ts"] < self._PRICE_CACHE_TTL`
PriceFresh(g, symbol) ==
    /\ g.price_cache[symbol].cached
    /\ g.now - g.price_cache[symbol].ts < PRICE_CACHE_TTL

\* get_account_balance(): out is what futures_account_balance does,
\* fetched the USDT balance of its answer
get_account_balance(g, out, fetched) ==
    IF BalanceFresh(g)
    THEN Did(g, g.balance_cache.balance, FALSE, 0, FALSE, FALSE)
    ELSE LET r == is_rate_limited(g) IN
         IF r.limited
         THEN Did(r.gw, g.balance_cache.balance, FALSE, 0, TRUE, FALSE)
         ELSE IF out = "ok"
         THEN Did([r.gw EXCEPT !.balance_cache = [balance |-> fetched, ts |-> g.now]],
                  fetched, FALSE, 1, TRUE, FALSE)
         ELSE IF out = "no_usdt"
         THEN Did(r.gw, 0, FALSE, 1, TRUE, FALSE)
         ELSE IF out = "exception"
         THEN Did(r.gw, 0, TRUE, 1, TRUE, FALSE)
         ELSE Did(handle_rate_limit(r.gw, out), g.balance_cache.balance, FALSE, 1,
                  TRUE, out = "rate_limit")

\* get_current_price(symbol): out is what futures_symbol_ticker does
get_current_price(g, symbol, out, fetched) ==
    LET cached == g.price_cache[symbol]
        stale  == IF cached.cached THEN cached.price ELSE 0
    IN  IF PriceFresh(g, symbol)
        THEN Did(g, cached.price, FALSE, 0, FALSE, FALSE)
        ELSE LET r == is_rate_limited(g) IN
             IF r.limited
             THEN Did(r.gw, stale, FALSE, 0, TRUE, FALSE)
             ELSE IF out = "ok"
             THEN Did([r.gw EXCEPT !.price_cache[symbol] =
                                      [cached |-> TRUE, price |-> fetched, ts |-> g.now]],
                      fetched, FALSE, 1, TRUE, FALSE)
             ELSE IF out = "exception"
             THEN Did(r.gw, 0, TRUE, 1, TRUE, FALSE)
             ELSE Did(handle_rate_limit(r.gw, out), stale, FALSE, 1, TRUE,
                      out = "rate_limit")

\* get_klines(symbol, interval, limit): [] inside the window and on an API error
get_klines(g, out) ==
    LET r == is_rate_limited(g) IN
    IF r.limited
    THEN Did(r.gw, 0, FALSE, 0, TRUE, FALSE)
    ELSE IF out = "ok"
    THEN Did(r.gw, 1, FALSE, 1, TRUE, FALSE)
    ELSE IF out = "exception"
    THEN Did(r.gw, 0, TRUE, 1, TRUE, FALSE)
    ELSE Did(handle_rate_limit(r.gw, out), 0, FALSE, 1, TRUE, out = "rate_limit")

\* set_leverage, get_open_orders, cancel_all_orders and get_position_info:
\* one outbound call inside try / except BinanceAPIException, with no test
\* of the window and no call of _handle_rate_limit
unguarded_query(g, out) ==
    IF out = "ok" THEN Did(g, 1, FALSE, 1, FALSE, FALSE)
    ELSE IF out = "exception" THEN Did(g, 0, TRUE, 1, FALSE, FALSE)
    ELSE Did(g, 0, FALSE, 1, FALSE, out = "rate_limit")

\* an attempt of place_market_order that fails with out: a -1003 error is a
\* BinanceAPIException with a generic message
AsAttempt(out) ==
    IF out = "rate_limit" THEN "api_error" ELSE out

\* place_market_order as the wrapper's state sees it: outs[a] is what the
\* a-th futures_create_order call does
place_market_order_on(g, outs) ==
    LET r == order_attempts(0, [a \in 0..(MaxAttempts - 1) |-> AsAttempt(outs[a])])
    IN  Did(g, IF r.order THEN 1 ELSE 0, FALSE, r.submissions, FALSE,
            \E a \in 0..(r.submissions - 1) : outs[a] = "rate_limit")

\* close_position as the wrapper's state sees it: the position query, then
\* (a position being held) the order; the outer `except Exception` turns
\* an exception of the query into False
close_position_on(g, info, outs) ==
    IF info # "ok"
    THEN Did(g, 0, FALSE, 1, FALSE, info = "rate_limit")
    ELSE LET o == place_market_order_on(g, outs) IN
         Did(g, o.result, FALSE, 1 + o.outbound, FALSE, o.signal)

----------------------------------------------------------------------------
(* services/telegram_bot.py: TelegramNotifier *)

\* What self._bot.send_message can do once the notifier is configured:
\*   ok              the message is delivered
\*   telegram_error  TelegramError (network, flood control, bad chat id)
\*   exception       any other exception
Deliveries == {"ok", "telegram_error", "exception"}

\* no send_message call has been made by the operation in progress
NoSend == [called |-> FALSE, result |-> FALSE, raised |-> FALSE, attempts |-> 0]

\* the notifier of a configured bot / of a bot without token or chat id
NoTg == [initialized |-> TRUE, last |-> NoSend]
Unconfigured == [initialized |-> FALSE, last |-> NoSend]

\* faulty variant: only TelegramError is caught, any other exception is raised
send_message_uncaught(initialized, delivery) ==
    IF ~initialized
    THEN [called |-> TRUE, result |-> FALSE, raised |-> FALSE, attempts |-> 0]
    ELSE [called |-> TRUE, result |-> delivery = "ok",
          raised |-> delivery = "exception", attempts |-> 1]

\* send_message(text): False without an attempt when the notifier is not
\* configured; otherwise one attempt, True when it is delivered, False on
\* TelegramError and on any other exception
send_message(initialized, delivery) ==
    IF ~initialized
    THEN [called |-> TRUE, result |-> FALSE, raised |-> FALSE, attempts |-> 0]
    ELSE [called |-> TRUE, result |-> delivery = "ok", raised |-> FALSE,
          attempts |-> 1]

\* the notifier after the call
Sent(t, delivery) == [t EXCEPT !.last = send_message(t.initialized, delivery)]
\* the notifier when the next operation begins
Quiet(t) == [t EXCEPT !.last = NoSend]

----------------------------------------------------------------------------
(* bot/execution_loop.py: pure parts of execute_signal *)

\* signal.market_data as execute_signal reads it; a missing key reads as 0
MarketData(Sizes, Stops, Targets, Refs) ==
    [position_size : Sizes, stop_loss : Stops, take_profit : Targets, price : Refs]

position_side(action) == IF action = "BUY" THEN "LONG" ELSE "SHORT"
order_side(action) == IF action = "BUY" THEN "BUY" ELSE "SELL"

\* round(current_price * 0.97, 2) / round(current_price * 1.03, 2)
FallbackStop(side, current_price) ==
    IF side = "LONG"
    THEN RoundHalfEven(current_price * 97, 100)
    ELSE RoundHalfEven(current_price * 103, 100)

\* `if stop_loss <= 0:` the fallback replaces the signal's stop
EffectiveStop(stop_loss, side, current_price) ==
    IF stop_loss <= 0 THEN FallbackStop(side, current_price) ELSE stop_loss

\* `if position_size < MIN_NOTIONAL: position_size = MIN_NOTIONAL`
EffectiveSize(position_size) ==
    IF position_size < MIN_NOTIONAL THEN MIN_NOTIONAL ELSE position_size

\* `if expected_price and expected_price > 0:`
SlippageChecked(expected_price) == expected_price > 0

\* faulty variant: the threshold itself already aborts (>= for >)
SlippageExceeded_atleast(current_price, expected_price) ==
    Abs(current_price - expected_price) * 200 >= expected_price

\* slippage_pct = abs(current - expected) / expected * 100;  slippage_pct > 0.5
SlippageExceeded(current_price, expected_price) ==
    Abs(current_price - expected_price) * 200 > expected_price

\* quantity = position_size / current_price, at the model's resolution
Quantity(position_size, current_price) ==
    (position_size * QtyScale) \div current_price

\* _round_quantity of the double position_size / current_price: the floor to
\* the step when the symbol's metadata is cached, otherwise round(quantity, 3)
\* of the quotient itself, which is half-way between two steps only where
\* the exact quotient is (Quantity is cut to the model's resolution, where
\* 0.50253... would read as the tie 0.5025)
round_quotient(has_info, position_size, current_price) ==
    IF has_info
    THEN round_quantity(TRUE, Quantity(position_size, current_price))
    ELSE RoundHalfEven(position_size * (QtyScale \div StepUnits), current_price)
            * StepUnits

\* faulty variant: the order's result is not tested
OrderFailed_never(order) == FALSE

\* `if not order:` the order-failure branch
OrderFailed(order) == ~order

\* the fields of the exchange's order response execute_signal parses; a 0
\* stands for a missing, zero or unparsable field
OrderResponses(sent, FillPrices) ==
    [executedQty : {0, sent},
     avgPrice : {0} \cup FillPrices,
     cumQuote : {0} \cup {sent * f : f \in FillPrices}]

\* filled_qty / avg_price with their fallbacks
ParseFill(resp, quantity, current_price) ==
    LET filled_qty == IF resp.executedQty <= 0 THEN quantity ELSE resp.executedQty
        avg1 == resp.avgPrice
        avg2 == IF avg1 <= 0
                THEN IF filled_qty > 0 /\ resp.cumQuote > 0
                     THEN resp.cumQuote \div filled_qty
                     ELSE current_price
                ELSE avg1
        avg3 == IF avg2 <= 0 THEN current_price ELSE avg2
    IN  [filled_qty |-> filled_qty, avg_price |-> avg3]

NoPosition == [position_id |-> 0, pair |-> "", side |-> "NONE", entry_price |-> 0,
               size |-> 0, quantity |-> 0, stop_loss |-> 0, take_profit |-> 0,
               signal_id |-> 0]

NoExe == [called |-> FALSE, signal_id |-> 0, pair |-> "", outcome |-> "none",
          position_size |-> 0, stop_loss |-> 0, expected_price |-> 0,
          current_price |-> 0, ordered |-> FALSE, order |-> FALSE,
          position_id |-> 0]

\* execute_signal up to its first await or its return: what it decides for
\* signal `signal` with market data md, the gateway's price, the run of the
\* order's attempt loop, the order response and the store's answer to
\* save_position.  outcome is one of
\*   zero_size, no_price   early returns
\*   slippage              abort, notification pending
\*   order_failed          place_market_order returned None, notification pending
\*   store_error           save_position raised (caught by execute_signal)
\*   opened                a Position was saved, notification pending
OpenSequence(pair, signal, md, current_price, has_info, run, resp, save_ok, pid) ==
    LET side     == position_side(signal.action)
        stop     == EffectiveStop(md.stop_loss, side, current_price)
        size     == EffectiveSize(md.position_size)
        quantity == Quantity(size, current_price)
        sent     == round_quotient(has_info, size, current_price)
        placed   == IF sent <= 0 THEN [order |-> FALSE, accepted |-> 0] ELSE run
        fill     == ParseFill(resp, quantity, current_price)
        base     == [NoExe EXCEPT !.called = TRUE, !.signal_id = signal.id,
                        !.pair = pair,
                        !.position_size = md.position_size,
                        !.stop_loss = md.stop_loss,
                        !.expected_price = md.price,
                        !.current_price = current_price]
        position == [position_id |-> pid, pair |-> pair, side |-> side,
                     entry_price |-> fill.avg_price,
                     size |-> fill.filled_qty * fill.avg_price,
                     quantity |-> fill.filled_qty,
                     stop_loss |-> stop, take_profit |-> md.take_profit,
                     signal_id |-> signal.id]
    IN  IF md.position_size = 0
        THEN [exe |-> [base EXCEPT !.outcome = "zero_size"], accepted |-> 0,
              sent |-> 0, position |-> NoPosition]
        ELSE IF current_price = 0
        THEN [exe |-> [base EXCEPT !.outcome = "no_price"], accepted |-> 0,
              sent |-> 0, position |-> NoPosition]
        ELSE IF SlippageChecked(md.price) /\ SlippageExceeded(current_price, md.price)
        THEN [exe |-> [base EXCEPT !.outcome = "slippage"], accepted |-> 0,
              sent |-> 0, position |-> NoPosition]
        ELSE IF OrderFailed(placed.order)
        THEN [exe |-> [base EXCEPT !.outcome = "order_failed", !.ordered = TRUE],
              accepted |-> placed.accepted, sent |-> sent, position |-> NoPosition]
        ELSE IF ~save_ok
        THEN [exe |-> [base EXCEPT !.outcome = "store_error", !.ordered = TRUE,
                                   !.order = placed.order],
              accepted |-> placed.accepted, sent |-> sent, position |-> NoPosition]
        ELSE [exe |-> [base EXCEPT !.outcome = "opened", !.ordered = TRUE,
                                   !.order = placed.order, !.position_id = pid],
              accepted |-> placed.accepted, sent |-> sent, position |-> position]

----------------------------------------------------------------------------
(* bot/execution_loop.py: pure parts of monitor_positions and close_position *)

\* the three triggers in the order the code evaluates them; each one that
\* matches overwrites exit_reason
ExitReason(position, current_price, latest_signal) ==
    LET sl == IF position.stop_loss > 0
                 /\ \/ position.side = "LONG" /\ current_price <= position.stop_loss
                    \/ position.side = "SHORT" /\ current_price >= position.stop_loss
              THEN "SL" ELSE "NONE"
        tp == IF position.take_profit > 0
                 /\ \/ position.side = "LONG" /\ current_price >= position.take_profit
                    \/ position.side = "SHORT" /\ current_price <= position.take_profit
              THEN "TP" ELSE sl
    IN  IF /\ latest_signal.id # 0
           /\ latest_signal.age = "fresh"
           /\ latest_signal.confidence >= MinConfidence
           /\ \/ position.side = "LONG" /\ latest_signal.action = "SELL"
              \/ position.side = "SHORT" /\ latest_signal.action = "BUY"
        THEN "SIGNAL" ELSE tp

\* pnl before fees
GrossPnl(position, exit_price) ==
    IF position.side = "LONG"
    THEN (exit_price - position.entry_price) * position.quantity
    ELSE (position.entry_price - exit_price) * position.quantity

\* sign of pnl_net = pnl - size * 0.0004 * 2, computed without leaving the integers
NetSign(pnl, size) ==
    LET whole == size \div FeeDivisor
        exact == size % FeeDivisor = 0
    IN  IF pnl > whole THEN 1
        ELSE IF pnl = whole /\ exact THEN 0
        ELSE 0 - 1

\* faulty variant: a close without a net loss leaves the counter as it is
LossesAfter_kept(losses, net_sign) == IF net_sign < 0 THEN losses + 1 ELSE losses

\* `if pnl_net < 0: consecutive_losses += 1 else: consecutive_losses = 0`
LossesAfter(losses, net_sign) == IF net_sign < 0 THEN losses + 1 ELSE 0

\* faulty variant: the gateway's answer is ignored
CloseProceeds_always(success) == TRUE

\* `if not success: return` inverted: the close sequence goes on
CloseProceeds(success) == success

NoCls == [called |-> FALSE, position_id |-> 0, pair |-> "", success |-> FALSE,
          reason |-> "NONE", price |-> 0, net_sign |-> 0, snapshot |-> FALSE]

\* where a store or gateway call of the close sequence raises (caught by
\* close_position's own except)
CloseFaults == {"none", "save_trade", "close_position", "balance", "snapshot"}

----------------------------------------------------------------------------
(* Inputs of the execution-loop specification *)

\* balances get_account_balance can return, in cents: a drawdown above the
\* limit (30 %) and one exactly at it (20 %)
Balances == {70000, 80000}
InitialCapitals == {100000}
\* settings.max_positions as configured
MaxPositionsChoices == {1, 3}
\* confidence values on either side of the threshold
Confidences == {MinConfidence - 1, MinConfidence}
\* market data of the signals, and the prices the gateway returns
LoopSizes   == {0, 10000}
LoopStops   == {0}
LoopTargets == {0}
LoopRefs    == {20000}
LoopPrices  == {0, 20000, 20200}
MonPrices   == {0, 19400, 20600}

----------------------------------------------------------------------------
(* bot/execution_loop.py: ExecutionLoop.run and what it calls *)

\* _calculate_drawdown, in 1/100 percent
calculate_drawdown(current_capital, initial) ==
    IF initial = 0 \/ current_capital >= initial
    THEN 0
    ELSE ((initial - current_capital) * 10000) \div initial

\* faulty variant: the percentage is compared with 100 times the limit
DrawdownBreaker_scaled(dd) == dd > 100 * MaxDrawdownPct100
\* faulty variant: the breaker waits for a fourth loss (> for >=)
LossBreaker_above(losses) == losses > LossLimit

\* CIRCUIT BREAKER 1: `drawdown > settings.max_drawdown * 100`
DrawdownBreaker(dd) == dd > MaxDrawdownPct100
\* CIRCUIT BREAKER 2: `self.consecutive_losses >= 3`
LossBreaker(losses) == losses >= LossLimit
\* CIRCUIT BREAKER 3: `self.daily_trades_count >= 10`
DailyBreaker(count) == count >= DailyLimit

\* the awaits of run() and of what it calls: asyncio.sleep and send_message.
\* Only there can the other task of the event loop run.
SleepPcs  == {"sleep", "dd_sleep", "cl_sleep", "daily_sleep"}
NotifyPcs == {"dd_notify", "cl_notify", "slip_notify", "fail_notify",
              "open_notify", "close_notify"}
AwaitPcs  == SleepPcs \cup NotifyPcs

\* faulty variants of check_signals' tests: the attempted set is not
\* consulted, the open position of the pair is not seen, the slot count is
\* compared with > for >=
AlreadyAttempted_never(signal, attempted) == FALSE
PositionOpenFor_never(pair, open_positions) == FALSE
MaxPositionsReached_above(open_positions, maxp) == Cardinality(open_positions) > maxp

\* check_signals' tests, in the order of the code
SignalStale(signal) == signal.age = "stale"                \* signal_age > 300
AlreadyAttempted(signal, attempted) == signal.id \in attempted
ConfidenceTooLow(signal) == signal.confidence < MinConfidence
IsHold(signal) == signal.action = "HOLD"
PositionOpenFor(pair, open_positions) == \E q \in open_positions : q.pair = pair
MaxPositionsReached(open_positions, maxp) == Cardinality(open_positions) >= maxp

\* faulty variant: the signal is executed without being marked
mark_attempted_never(attempted, id) == attempted

\* `self._attempted_signals.add(signal.id)`, the statement before
\* `await self.execute_signal(signal)`
mark_attempted(attempted, id) == attempted \cup {id}

\* every signal in the store is older than 300 s after a sleep of 3600 s
AgedByCooldown(sigs) ==
    [q \in DOMAIN sigs |-> IF sigs[q].id = 0 THEN sigs[q]
                           ELSE [sigs[q] EXCEPT !.age = "stale"]]

\* the advisory pipeline (bot/strategy_loop.py analyze_pair) saves a new
\* latest signal for a pair; it runs only while run() is suspended
PipelineSavesSignalOn(Max, Prs, Acts, Confs) ==
    /\ pc \in AwaitPcs
    /\ nextSig <= Max
    /\ \E pair \in Prs, a \in Acts, c \in Confs :
          signals' = [signals EXCEPT ![pair] =
                        [id |-> nextSig, action |-> a, confidence |-> c, age |-> "fresh"]]
    /\ nextSig' = nextSig + 1
    /\ UNCHANGED <<positions, trades, initial_capital, exchVars, loopVars,
                   reconVars, ord, gateVars, auxVars, notes, execCount, nextPos>>

PipelineSavesSignal == PipelineSavesSignalOn(MaxSignals, Pairs, Actions, Confidences)

\* datetime.now() moves on while run() is suspended: a signal leaves its
\* staleness window
TimePasses ==
    /\ pc \in AwaitPcs
    /\ \E pair \in Pairs :
          /\ signals[pair].id # 0
          /\ signals[pair].age # "stale"
          /\ signals' = [signals EXCEPT ![pair].age = "stale"]
    /\ UNCHANGED <<positions, trades, initial_capital, exchVars, loopVars,
                   reconVars, ord, gateVars, auxVars, histVars>>

\* top of `while True`: daily reset, drawdown, the three breakers.
\* new_day: the calendar date differs from last_reset_date.
\* balance: what get_account_balance returns; read_ok: FALSE when the
\* balance or initial-capital read raises (run()'s except, then the sleep).
TickOn(Bals, ReadOks) ==
    /\ pc = "tick"
    /\ \E new_day \in BOOLEAN, balance \in Bals, read_ok \in ReadOks :
          LET count == IF new_day THEN 0 ELSE daily_trades_count
              dd    == calculate_drawdown(balance, initial_capital)
          IN  /\ daily_trades_count' = count
              /\ IF ~read_ok
                 THEN /\ drawdown' = NotComputed
                      /\ pc' = "sleep"
                 ELSE /\ drawdown' = dd
                      /\ pc' = IF DrawdownBreaker(dd) THEN "dd_notify"
                               ELSE IF LossBreaker(consecutive_losses) THEN "cl_notify"
                               ELSE IF DailyBreaker(count) THEN "daily_sleep"
                               ELSE "check"
    /\ idx' = 1
    /\ notes' = <<>>
    /\ tg' = Quiet(tg)
    /\ exe' = NoExe
    /\ cls' = NoCls
    /\ UNCHANGED <<signals, positions, trades, initial_capital, exchVars, monLeft,
                   consecutive_losses, attempted_signals, max_positions,
                   reconVars, ord, sg, boots, daily_count_key, made, execCount, nextSig, nextPos>>

TickStart == TickOn(Balances, BOOLEAN) /\ UNCHANGED gateVars

\* the breaker's send_message, then its asyncio.sleep(3600); an exception
\* out of send_message would end the tick in run()'s except, before the
\* cooldown
BreakerNotify ==
    /\ pc \in {"dd_notify", "cl_notify"}
    /\ \E delivery \in Deliveries :
          LET t == Sent(tg, delivery) IN
          /\ tg' = t
          /\ IF t.last.raised
             THEN /\ pc' = "sleep"
                  /\ UNCHANGED signals
             ELSE /\ pc' = IF pc = "dd_notify" THEN "dd_sleep" ELSE "cl_sleep"
                  /\ signals' = AgedByCooldown(signals)
    /\ notes' = Append(notes, IF pc = "dd_notify" THEN "drawdown" ELSE "cooling_off")
    /\ UNCHANGED <<positions, trades, initial_capital, exchVars, idx, monLeft,
                   consecutive_losses, daily_trades_count, attempted_signals, drawdown,
                   max_positions, exe, cls, reconVars, ord, gateVars, sg, boots, daily_count_key, made,
                   execCount, nextSig, nextPos>>

\* a sleep ends; after the consecutive-loss cooldown the counter is reset
Wake ==
    /\ pc \in SleepPcs
    /\ consecutive_losses' = IF pc = "cl_sleep" THEN 0 ELSE consecutive_losses
    /\ pc' = "tick"
    /\ drawdown' = NotComputed
    /\ UNCHANGED <<storeVars, exchVars, idx, monLeft, daily_trades_count,
                   attempted_signals, max_positions, exe, cls, reconVars, ord, gateVars, auxVars, histVars>>

\* check_signals, one pair of the for loop: the tests up to marking the
\* signal attempted.  sig_ok / pos_ok: FALSE when the store read raises,
\* which ends check_signals and the tick (run()'s except).
CheckPair ==
    /\ pc = "check"
    /\ idx <= Len(pairs_list)
    /\ \E sig_ok \in BOOLEAN, pos_ok \in BOOLEAN :
          LET pair   == pairs_list[idx]
              signal == signals[pair]
          IN  IF ~sig_ok
              THEN /\ pc' = "sleep"
                   /\ idx' = 1
                   /\ UNCHANGED attempted_signals
              ELSE IF signal.id = 0
              THEN /\ idx' = idx + 1
                   /\ UNCHANGED <<pc, attempted_signals>>
              ELSE IF SignalStale(signal)
              THEN /\ attempted_signals' = attempted_signals \ {signal.id}
                   /\ idx' = idx + 1
                   /\ UNCHANGED pc
              ELSE IF \/ AlreadyAttempted(signal, attempted_signals)
                      \/ ConfidenceTooLow(signal)
                      \/ IsHold(signal)
              THEN /\ idx' = idx + 1
                   /\ UNCHANGED <<pc, attempted_signals>>
              ELSE IF ~pos_ok
              THEN /\ pc' = "sleep"
                   /\ idx' = 1
                   /\ UNCHANGED attempted_signals
              ELSE IF \/ PositionOpenFor(pair, positions)
                      \/ MaxPositionsReached(positions, max_positions)
              THEN /\ idx' = idx + 1
                   /\ UNCHANGED <<pc, attempted_signals>>
              ELSE /\ attempted_signals' = mark_attempted(attempted_signals, signal.id)
                   /\ pc' = "execute"
                   /\ UNCHANGED idx
    /\ exe' = NoExe
    /\ notes' = <<>>
    /\ tg' = Quiet(tg)
    /\ drawdown' = IF pc' = "sleep" THEN NotComputed ELSE drawdown
    /\ UNCHANGED <<storeVars, exchVars, monLeft, consecutive_losses, daily_trades_count,
                   max_positions, cls, reconVars, ord, gateVars, sg, boots, daily_count_key, made,
                   execCount, nextSig, nextPos>>

\* execute_signal for the signal CheckPair let through, up to its first
\* await (a notification) or its return
ExecuteSignalOn(MD, Prices, FillDeltas, Runs) ==
    /\ pc = "execute"
    /\ LET pair   == pairs_list[idx]
           signal == signals[pair]
       IN  \E md \in MD, current_price \in Prices, run \in Runs,
              save_ok \in BOOLEAN, d \in FillDeltas :
           \E resp \in OrderResponses(
                          IF current_price = 0 THEN 0
                          ELSE round_quotient(symbol_info,
                                 EffectiveSize(md.position_size), current_price),
                          {current_price + d}) :
              LET r == OpenSequence(pair, signal, md, current_price, symbol_info,
                                    run, resp, save_ok, nextPos)
              IN  /\ exe' = r.exe
                  /\ exPos' = [exPos EXCEPT ![pair] =
                                  Fill(exPos[pair], order_side(signal.action),
                                       r.sent, r.accepted)]
                  /\ positions' = IF r.exe.outcome = "opened"
                                  THEN positions \cup {r.position}
                                  ELSE positions
                  /\ nextPos' = IF r.exe.outcome = "opened" THEN nextPos + 1 ELSE nextPos
                  /\ pc' = CASE r.exe.outcome = "slippage" -> "slip_notify"
                             [] r.exe.outcome = "order_failed" -> "fail_notify"
                             [] r.exe.outcome = "opened" -> "open_notify"
                             [] OTHER -> "check"
                  /\ idx' = IF r.exe.outcome \in {"slippage", "order_failed", "opened"}
                            THEN idx ELSE idx + 1
                  /\ execCount' = [execCount EXCEPT ![signal.id] = @ + 1]
                  /\ made' = [made EXCEPT
                                ![signal.id].orders = @ + r.accepted,
                                ![signal.id].positions =
                                    IF r.exe.outcome = "opened" THEN @ + 1 ELSE @]
    /\ UNCHANGED <<signals, trades, initial_capital, symbol_info, monLeft,
                   consecutive_losses, daily_trades_count, attempted_signals, drawdown,
                   max_positions, cls, reconVars, ord, gateVars, tg, sg, boots, daily_count_key, notes,
                   nextSig>>

ExecuteSignal ==
    ExecuteSignalOn(MarketData(LoopSizes, LoopStops, LoopTargets, LoopRefs), LoopPrices,
                    {0}, CleanRuns)

\* the send_message execute_signal awaits, then its return to check_signals
\* (an exception out of send_message would be caught by execute_signal's
\* except, which returns as well)
NotifyAfterExecute ==
    /\ pc \in {"slip_notify", "fail_notify", "open_notify"}
    /\ \E delivery \in Deliveries : tg' = Sent(tg, delivery)
    /\ notes' = Append(notes, CASE pc = "slip_notify" -> "slippage"
                                [] pc = "fail_notify" -> "order_failed"
                                [] OTHER -> "opened")
    /\ pc' = "check"
    /\ idx' = idx + 1
    /\ UNCHANGED <<storeVars, exchVars, exe, monLeft, consecutive_losses, daily_trades_count,
                   attempted_signals, drawdown, max_positions, cls, reconVars, ord, gateVars,
                   sg, boots, daily_count_key, made, execCount, nextSig, nextPos>>

\* check_signals is through; monitor_positions takes its snapshot of the
\* open positions (read_ok FALSE: the read raises, run()'s except)
StartMonitor ==
    /\ pc = "check"
    /\ idx > Len(pairs_list)
    /\ \E read_ok \in BOOLEAN :
          IF read_ok
          THEN /\ monLeft' = positions
               /\ pc' = "monitor"
               /\ UNCHANGED drawdown
          ELSE /\ monLeft' = {}
               /\ pc' = "sleep"
               /\ drawdown' = NotComputed
    /\ exe' = NoExe
    /\ notes' = <<>>
    /\ tg' = Quiet(tg)
    /\ idx' = 1
    /\ UNCHANGED <<storeVars, exchVars, consecutive_losses, daily_trades_count,
                   attempted_signals, max_positions, cls, reconVars, ord, gateVars,
                   sg, boots, daily_count_key, made, execCount, nextSig, nextPos>>

\* monitor_positions, one position of the snapshot: price, triggers and,
\* when one matched, close_position up to its await or return.
\*   sig_ok   FALSE when get_latest_signal raises (caught per position)
\*   info     what the gateway's position query does
\*   run      the closing order's run of the attempt loop
\*   fault    where the close sequence raises, if anywhere
MonitorPositionOn(Prices, Runs) ==
    /\ pc = "monitor"
    /\ \E position \in monLeft, current_price \in Prices, sig_ok \in BOOLEAN,
          info \in InfoOutcomes, run \in Runs, fault \in CloseFaults :
          LET pair   == position.pair
              reason == ExitReason(position, current_price, signals[pair])
              g      == gateway_close_position(exPos[pair], symbol_info, info, run)
              pnl    == GrossPnl(position, current_price)
              net    == NetSign(pnl, position.size)
              trade  == [position_id |-> position.position_id, pair |-> pair,
                         net_sign |-> net, exit_reason |-> reason]
          IN  /\ monLeft' = monLeft \ {position}
              /\ notes' = <<>>
              /\ tg' = Quiet(tg)
              /\ IF current_price = 0 \/ ~sig_ok \/ reason = "NONE"
                 THEN /\ cls' = [NoCls EXCEPT !.price = current_price]
                      /\ UNCHANGED <<pc, exPos, positions, trades,
                                     consecutive_losses, daily_trades_count>>
                 ELSE /\ exPos' = [exPos EXCEPT ![pair] = g.newPos]
                      /\ cls' = [NoCls EXCEPT !.called = TRUE,
                                    !.position_id = position.position_id,
                                    !.pair = pair, !.success = g.success,
                                    !.reason = reason, !.price = current_price,
                                    !.net_sign = net,
                                    !.snapshot = CloseProceeds(g.success) /\ fault = "none"]
                      /\ IF ~CloseProceeds(g.success)
                         THEN UNCHANGED <<pc, positions, trades,
                                          consecutive_losses, daily_trades_count>>
                         ELSE /\ consecutive_losses' = LossesAfter(consecutive_losses, net)
                              /\ daily_trades_count' = daily_trades_count + 1
                              /\ trades' = IF fault = "save_trade" THEN trades
                                           ELSE Append(trades, trade)
                              /\ positions' =
                                    IF fault \in {"save_trade", "close_position"}
                                    THEN positions
                                    ELSE {q \in positions :
                                            q.position_id # position.position_id}
                              /\ pc' = IF fault = "none" THEN "close_notify" ELSE "monitor"
    /\ UNCHANGED <<signals, initial_capital, symbol_info, idx, attempted_signals,
                   drawdown, max_positions, exe, reconVars, ord, gateVars, sg, boots, daily_count_key, made,
                   execCount, nextSig, nextPos>>

MonitorPosition == MonitorPositionOn(MonPrices, CleanRuns)

\* the send_message close_position awaits, then back to the for loop (an
\* exception out of send_message would be caught by close_position's except,
\* which returns as well)
NotifyClosed ==
    /\ pc = "close_notify"
    /\ \E delivery \in Deliveries : tg' = Sent(tg, delivery)
    /\ notes' = Append(notes, "closed")
    /\ pc' = "monitor"
    /\ UNCHANGED <<storeVars, exchVars, cls, idx, monLeft, consecutive_losses,
                   daily_trades_count, attempted_signals, drawdown, max_positions,
                   exe, reconVars, ord, gateVars, sg, boots, daily_count_key, made, execCount, nextSig,
                   nextPos>>

\* monitor_positions is through: `await asyncio.sleep(self.interval)`
MonitorDone ==
    /\ pc = "monitor"
    /\ monLeft = {}
    /\ pc' = "sleep"
    /\ cls' = NoCls
    /\ notes' = <<>>
    /\ tg' = Quiet(tg)
    /\ drawdown' = NotComputed
    /\ UNCHANGED <<storeVars, exchVars, idx, monLeft, consecutive_losses,
                   daily_trades_count, attempted_signals, max_positions,
                   exe, reconVars, ord, gateVars, sg, boots, daily_count_key, made, execCount, nextSig,
                   nextPos>>

----------------------------------------------------------------------------
(* core/safeguards.py: TradingSafeguards.  Ratios and percentages are in  *)
(* 1/100, amounts in whole USDT.                                           *)

\* settings.min_rr_ratio = 2.0
MinRR100 == 200
\* settings.max_sl_distance_pct = 3.0
MaxSlDistance100 == 300
\* settings.risk_per_trade * 100 = 2.0 (percent)
RiskPerTrade100 == 200
\* settings.max_capital_in_positions_pct * 100 = 10.0 (percent)
MaxExposurePct == 10
\* settings.max_trades_per_day
MaxTradesPerDay == 8
\* settings.min_position_spacing_minutes
MinSpacingMinutes == 90
\* settings.consecutive_loss_pause_count
LossPauseCount == 3

\* the names of the ten checks, in the order validate_trade builds its list
CheckNames ==
    <<"confidence", "risk_reward_ratio", "stop_loss_distance", "position_size",
      "max_positions", "portfolio_exposure", "drawdown", "daily_trade_limit",
      "position_spacing", "consecutive_losses">>

\* SafeguardResult; the reason is kept as the kind of sentence it is:
\* "ok" (the limit is met), "blocked" (it is not), "unverified" (a read raised)
Result(name, passed, reason) == [check_name |-> name, passed |-> passed, reason |-> reason]
Judged(name, passed) == Result(name, passed, IF passed THEN "ok" ELSE "blocked")

\* no position of the decision's pair is open
NoPairPosition == 0 - 1

check_confidence(d) == Judged("confidence", d.confidence >= MinConfidence)
check_rr_ratio(d) == Judged("risk_reward_ratio", d.risk_reward_ratio >= MinRR100)
check_sl_distance(d) == Judged("stop_loss_distance", d.sl_pct <= MaxSlDistance100)
check_position_size(d) == Judged("position_size", d.position_size_pct <= RiskPerTrade100)

\* _check_max_positions: no try; an exception of the store read leaves
\* validate_trade
check_max_positions(a, maxp) == Judged("max_positions", a.open_count < maxp)

\* `except Exception`: passed=False
ExposureUnverified == Result("portfolio_exposure", FALSE, "unverified")

\* _check_portfolio_exposure: exposure_pct = new_exposure / balance * 100,
\* 100 when the balance is 0
check_portfolio_exposure(d, a) ==
    IF ~a.balance_ok \/ ~a.exposure_read_ok
    THEN ExposureUnverified
    ELSE LET new_exposure == a.open_count * a.open_size + d.position_size_usd IN
         Judged("portfolio_exposure",
                IF a.balance > 0
                THEN new_exposure * 100 <= MaxExposurePct * a.balance
                ELSE 100 <= MaxExposurePct)

\* _check_drawdown: passes when no capital is recorded or the balance is not
\* below it; otherwise drawdown_pct < max_dd
check_drawdown(a) ==
    IF ~a.balance_ok \/ ~a.capital_ok
    THEN Result("drawdown", FALSE, "unverified")
    ELSE IF a.initial <= 0 \/ a.balance >= a.initial
    THEN Judged("drawdown", TRUE)
    ELSE Judged("drawdown",
                (a.initial - a.balance) * 10000 < MaxDrawdownPct100 * a.initial)

\* _check_daily_trade_limit
check_daily_trade_limit(a) ==
    IF ~a.counter_ok
    THEN Result("daily_trade_limit", TRUE, "unverified")
    ELSE Judged("daily_trade_limit", a.daily_count < MaxTradesPerDay)

\* _check_position_spacing
check_position_spacing(a) ==
    IF ~a.spacing_read_ok
    THEN Result("position_spacing", TRUE, "unverified")
    ELSE IF a.pair_elapsed = NoPairPosition
    THEN Judged("position_spacing", TRUE)
    ELSE Judged("position_spacing", a.pair_elapsed >= MinSpacingMinutes)

\* _check_consecutive_losses: a.losses is the number of losing trades at the
\* head of the recent trades.  (RedisManager has no get_recent_trades: with
\* the store of core/database.py the read raises AttributeError in every
\* call, which is the case trades_ok = FALSE.)
check_consecutive_losses(a) ==
    IF ~a.trades_ok
    THEN Result("consecutive_losses", TRUE, "unverified")
    ELSE Judged("consecutive_losses", a.losses < LossPauseCount)

\* the list `checks` of validate_trade
Checks(d, a, maxp) ==
    <<check_confidence(d), check_rr_ratio(d), check_sl_distance(d),
      check_position_size(d), check_max_positions(a, maxp),
      check_portfolio_exposure(d, a), check_drawdown(a),
      check_daily_trade_limit(a), check_position_spacing(a),
      check_consecutive_losses(a)>>

\* `[c for c in checks if not c.passed]`
RECURSIVE Failures(_)
Failures(checks) ==
    IF checks = <<>> THEN <<>>
    ELSE IF Head(checks).passed THEN Failures(Tail(checks))
    ELSE <<Head(checks)>> \o Failures(Tail(checks))

\* `"; ".join(f.reason for f in failures)`: the reasons in order, each with
\* the check it belongs to, the separators between them
RECURSIVE Joined(_)
Joined(failures) ==
    IF failures = <<>> THEN <<>>
    ELSE IF Len(failures) = 1
    THEN <<<<Head(failures).check_name, Head(failures).reason>>>>
    ELSE <<<<Head(failures).check_name, Head(failures).reason>>, <<"; ", "">>>>
         \o Joined(Tail(failures))

NoReport == [approved |-> FALSE, checks |-> <<>>, has_reason |-> FALSE,
             blocked_reason |-> <<>>]

\* `approved = len(failures) == 0`
Approved(failures) == Len(failures) = 0

\* validate_trade(decision): the store read of check 5 is the one read
\* outside a try; when it raises, validate_trade raises after four checks
validate_trade(d, a, maxp) ==
    IF ~a.slots_read_ok
    THEN [raised |-> TRUE, evaluated |-> 4, report |-> NoReport]
    ELSE LET checks   == Checks(d, a, maxp)
             failures == Failures(checks)
             approved == Approved(failures)
         IN  [raised |-> FALSE, evaluated |-> Len(checks),
              report |-> [approved |-> approved, checks |-> checks,
                          has_reason |-> ~approved,
                          blocked_reason |-> IF ~approved THEN Joined(failures)
                                             ELSE <<>>]]

NoSg == [called |-> FALSE]

----------------------------------------------------------------------------
(* The execution loop with the advisory pipeline beside it *)

NoOrd == [called |-> FALSE]

\* nothing has been ordered or opened for any signal yet
NoneMade == [i \in 1..(MaxSignals + MaxLossSignals) |-> [orders |-> 0, positions |-> 0]]

Init ==
    /\ signals = [q \in Pairs |-> NoSignal]
    /\ positions = {}
    /\ trades = <<>>
    /\ initial_capital \in InitialCapitals
    /\ exPos = [q \in Pairs |-> 0]
    /\ symbol_info = TRUE
    /\ pc = "sleep"
    /\ idx = 1
    /\ monLeft = {}
    /\ consecutive_losses = 0
    /\ daily_trades_count = 0
    /\ attempted_signals = {}
    /\ drawdown = NotComputed
    /\ max_positions \in MaxPositionsChoices
    /\ exe = NoExe
    /\ cls = NoCls
    /\ rpc = "done"
    /\ ridx = 1
    /\ redis_positions = {}
    /\ epc = "idle"
    /\ eLeft = {}
    /\ ord = NoOrd
    /\ gw = NoGw
    /\ call = NoCall
    /\ ghist = NoHist
    /\ tg = NoTg
    /\ sg = NoSg
    /\ boots = 0
    /\ daily_count_key = 0
    /\ made = NoneMade
    /\ notes = <<>>
    /\ execCount = [i \in 1..(MaxSignals + MaxLossSignals) |-> 0]
    /\ nextSig = 1
    /\ nextPos = 1

Next ==
    \/ PipelineSavesSignal
    \/ TimePasses
    \/ TickStart
    \/ BreakerNotify
    \/ Wake
    \/ CheckPair
    \/ ExecuteSignal
    \/ NotifyAfterExecute
    \/ StartMonitor
    \/ MonitorPosition
    \/ NotifyClosed
    \/ MonitorDone

Spec == Init /\ [][Next]_vars

----------------------------------------------------------------------------
(* The same loop followed as far as the consecutive-loss breaker: the    *)
(* pipeline saves up to MaxLossSignals signals, all of them eligible and  *)
(* for one pair.                                                          *)

LossPairs   == {pairs_list[1]}
LossActions == {"BUY"}
LossSizes   == {10000}
LossTargets == {20600}
LossPrices  == {20000}
LossMonPrices == {19400, 20600}

PipelineSavesEligible ==
    PipelineSavesSignalOn(MaxLossSignals, LossPairs, LossActions, {MinConfidence})

ExecuteEligible ==
    ExecuteSignalOn(MarketData(LossSizes, LoopStops, LossTargets, LoopRefs), LossPrices,
                    {0}, CleanRuns)

MonitorAtExit == MonitorPositionOn(LossMonPrices, CleanRuns)

NextLoss ==
    \/ PipelineSavesEligible
    \/ TimePasses
    \/ TickStart
    \/ BreakerNotify
    \/ Wake
    \/ CheckPair
    \/ ExecuteEligible
    \/ NotifyAfterExecute
    \/ StartMonitor
    \/ MonitorAtExit
    \/ NotifyClosed
    \/ MonitorDone

SpecLoss == Init /\ [][NextLoss]_vars

----------------------------------------------------------------------------
(* execute_signal seen alone, on a signal check_signals has just let     *)
(* through, with market data and prices on both sides of every test      *)

OpenSizes   == {0, 5000, 10000}
OpenStops   == {0, 19000}
OpenTargets == {0, 21000}
OpenRefs    == {0, 20000}
\* 0.5 % of the reference 20000 is 100
OpenPrices  == {0, 19899, 19900, 20000, 20100, 20101}
OpenFillDeltas == {0, 10}

ExecuteOpen ==
    ExecuteSignalOn(MarketData(OpenSizes, OpenStops, OpenTargets, OpenRefs), OpenPrices,
                    OpenFillDeltas, OrderRuns)

InitOpen ==
    /\ \E a \in {"BUY", "SELL"} :
          signals = [q \in Pairs |->
                        IF q = pairs_list[1]
                        THEN [id |-> 1, action |-> a, confidence |-> MinConfidence,
                              age |-> "fresh"]
                        ELSE NoSignal]
    /\ positions = {}
    /\ trades = <<>>
    /\ initial_capital \in InitialCapitals
    /\ exPos = [q \in Pairs |-> 0]
    /\ symbol_info \in BOOLEAN
    /\ pc = "execute"
    /\ idx = 1
    /\ monLeft = {}
    /\ consecutive_losses = 0
    /\ daily_trades_count = 0
    /\ attempted_signals = {1}
    /\ drawdown = 0
    /\ max_positions \in MaxPositionsChoices
    /\ exe = NoExe
    /\ cls = NoCls
    /\ rpc = "done"
    /\ ridx = 1
    /\ redis_positions = {}
    /\ epc = "idle"
    /\ eLeft = {}
    /\ ord = NoOrd
    /\ gw = NoGw
    /\ call = NoCall
    /\ ghist = NoHist
    /\ tg = NoTg
    /\ sg = NoSg
    /\ boots = 0
    /\ daily_count_key = 0
    /\ made = NoneMade
    /\ notes = <<>>
    /\ execCount = [i \in 1..(MaxSignals + MaxLossSignals) |-> 0]
    /\ nextSig = 2
    /\ nextPos = 1

NextOpen ==
    \/ ExecuteOpen
    \/ NotifyAfterExecute

SpecOpen == InitOpen /\ [][NextOpen]_vars

----------------------------------------------------------------------------
(* place_market_order seen alone: one call on every input of the bounded *)
(* sets                                                                  *)

\* quantities below, on and between the steps of the lot-size grid
OrderQuantities == {0, 4, 5, 6, 15, 860, 870, 5000}

NoResult == [order |-> FALSE, submissions |-> 0, accepted |-> 0, sleeps |-> <<>>,
             sent |-> 0]

PlaceMarketOrder ==
    /\ ord.called = FALSE
    /\ ord' = [ord EXCEPT !.called = TRUE,
                          !.result = place_market_order(ord.has_info, ord.quantity,
                                                        ord.outs)]
    /\ UNCHANGED <<storeVars, exchVars, loopVars, reconVars, histVars, gateVars, auxVars>>

InitOrder ==
    /\ signals = [q \in Pairs |-> NoSignal]
    /\ positions = {}
    /\ trades = <<>>
    /\ initial_capital \in InitialCapitals
    /\ exPos = [q \in Pairs |-> 0]
    /\ symbol_info = TRUE
    /\ pc = "sleep"
    /\ idx = 1
    /\ monLeft = {}
    /\ consecutive_losses = 0
    /\ daily_trades_count = 0
    /\ attempted_signals = {}
    /\ drawdown = NotComputed
    /\ max_positions = 3
    /\ exe = NoExe
    /\ cls = NoCls
    /\ rpc = "done"
    /\ ridx = 1
    /\ redis_positions = {}
    /\ epc = "idle"
    /\ eLeft = {}
    /\ ord \in [called : {FALSE}, has_info : BOOLEAN, quantity : OrderQuantities,
                outs : AttemptSeqs, result : {NoResult}]
    /\ gw = NoGw
    /\ call = NoCall
    /\ ghist = NoHist
    /\ tg = NoTg
    /\ sg = NoSg
    /\ boots = 0
    /\ daily_count_key = 0
    /\ made = NoneMade
    /\ notes = <<>>
    /\ execCount = [i \in 1..(MaxSignals + MaxLossSignals) |-> 0]
    /\ nextSig = 1
    /\ nextPos = 1

NextOrder == PlaceMarketOrder

SpecOrder == InitOrder /\ [][NextOrder]_vars

----------------------------------------------------------------------------
(* bot/main.py reconcile_positions and api/routes/control.py               *)
(* emergency_stop, on a store and an exchange as a previous run of the bot *)
(* can have left them                                                      *)

\* a Position a previous run saved for `pair`
StoredPosition(pair, pid) ==
    [NoPosition EXCEPT !.position_id = pid, !.pair = pair, !.side = "LONG",
                       !.entry_price = 20000, !.quantity = 5000,
                       !.size = 5000 * 20000, !.stop_loss = 19400]

\* what the exchange can hold for a pair at startup
StartupHoldings == {0, 5000, 0 - 5000}

\* `next((p for p in redis_positions if p.pair == pair), None)`
RedisPos(snapshot, pair) ==
    IF \E q \in snapshot : q.pair = pair
    THEN CHOOSE q \in snapshot : q.pair = pair
    ELSE NoPosition

\* CASE 1: `if binance_pos and not redis_pos`
IsOrphan(binance_pos, redis_pos) == binance_pos.found /\ redis_pos.position_id = 0
\* CASE 2: `elif redis_pos and not binance_pos`
IsStale(binance_pos, redis_pos) == redis_pos.position_id # 0 /\ ~binance_pos.found

\* faulty variant: the for loop has no try of its own, an exception raised
\* for one pair ends up in the outer except
AfterPairFailure_outer(i) == [rpc |-> "failed_notify", ridx |-> i]

\* `except Exception as e: logger.error(...)` inside the for loop: where
\* reconcile_positions stands after an exception raised while handling the
\* i-th pair
AfterPairFailure(i) == [rpc |-> "pair", ridx |-> i + 1]

\* `redis_positions = db.get_all_open_positions()`; read_ok FALSE: the read
\* raises and the outer except sends the failure notification
ReconcileStart ==
    /\ rpc = "start"
    /\ \E read_ok \in BOOLEAN :
          IF read_ok
          THEN /\ redis_positions' = positions
               /\ rpc' = "pair"
          ELSE /\ redis_positions' = {}
               /\ rpc' = "failed_notify"
    /\ ridx' = 1
    /\ UNCHANGED <<storeVars, exchVars, loopVars, epc, eLeft, ord, gateVars, auxVars, histVars>>

\* one pair of reconcile_positions' for loop, up to its await or the next pair.
\*   info      what reconcile's own get_position_info does
\*   info2/run the query and the order inside exchange.close_position (orphan)
\*   store_ok  FALSE when db.close_position raises (caught per pair)
ReconcilePair ==
    /\ rpc = "pair"
    /\ ridx <= Len(pairs_list)
    /\ \E info \in InfoOutcomes, info2 \in InfoOutcomes, run \in CleanRuns,
          store_ok \in BOOLEAN :
          LET pair        == pairs_list[ridx]
              binance_pos == get_position_info(exPos[pair], info)
              redis_pos   == RedisPos(redis_positions, pair)
              g == gateway_close_position(exPos[pair], symbol_info, info2, run)
              failed      == AfterPairFailure(ridx)
          IN  IF binance_pos.raised
              THEN /\ rpc' = failed.rpc
                   /\ ridx' = failed.ridx
                   /\ UNCHANGED <<exPos, positions>>
              ELSE IF IsOrphan(binance_pos, redis_pos)
              THEN /\ exPos' = [exPos EXCEPT ![pair] = g.newPos]
                   /\ rpc' = IF g.success THEN "r_notify" ELSE "pair"
                   /\ ridx' = IF g.success THEN ridx ELSE ridx + 1
                   /\ UNCHANGED positions
              ELSE IF IsStale(binance_pos, redis_pos)
              THEN /\ positions' = IF store_ok
                                   THEN {q \in positions :
                                           q.position_id # redis_pos.position_id}
                                   ELSE positions
                   /\ rpc' = IF store_ok THEN "r_notify" ELSE failed.rpc
                   /\ ridx' = IF store_ok THEN ridx ELSE failed.ridx
                   /\ UNCHANGED exPos
              ELSE /\ ridx' = ridx + 1
                   /\ UNCHANGED <<rpc, exPos, positions>>
    /\ UNCHANGED <<signals, trades, initial_capital, symbol_info, loopVars,
                   redis_positions, epc, eLeft, ord, gateVars, auxVars, histVars>>

\* the send_message of either case, or of the outer except.  An exception
\* out of send_message would be one more failure of the pair in the for
\* loop, and would leave reconcile_positions (and main) from the outer except.
ReconcileNotify ==
    /\ rpc \in {"r_notify", "failed_notify"}
    /\ \E delivery \in Deliveries :
          LET t == Sent(tg, delivery)
              failed == AfterPairFailure(ridx)
          IN  /\ tg' = t
              /\ IF rpc = "r_notify"
                 THEN /\ rpc' = IF t.last.raised THEN failed.rpc ELSE "pair"
                      /\ ridx' = IF t.last.raised THEN failed.ridx ELSE ridx + 1
                 ELSE /\ rpc' = IF t.last.raised THEN "crashed" ELSE "done"
                      /\ UNCHANGED ridx
    /\ notes' = Append(notes, IF rpc = "r_notify" THEN "reconciliation"
                              ELSE "reconciliation_failed")
    /\ UNCHANGED <<storeVars, exchVars, loopVars, redis_positions, epc, eLeft, ord, gateVars,
                   sg, boots, daily_count_key, made, execCount, nextSig, nextPos>>

\* the for loop is through
ReconcileDone ==
    /\ rpc = "pair"
    /\ ridx > Len(pairs_list)
    /\ rpc' = "done"
    /\ UNCHANGED <<storeVars, exchVars, loopVars, ridx, redis_positions, epc, eLeft,
                   ord, gateVars, auxVars, histVars>>

\* main(): reconcile_positions has returned; the two loops are constructed
\* and gathered, and run() begins with its initial asyncio.sleep(10)
StartLoops ==
    /\ rpc = "done"
    /\ pc = "off"
    /\ pc' = "sleep"
    /\ UNCHANGED <<storeVars, exchVars, idx, monLeft, consecutive_losses,
                   daily_trades_count, attempted_signals, drawdown, max_positions, exe, cls,
                   reconVars, ord, gateVars, auxVars, histVars>>

\* POST /emergency-stop: `positions = db.get_all_open_positions()`;
\* read_ok FALSE: the read raises, HTTP 500
EmergencyStart ==
    /\ epc = "idle"
    /\ \E read_ok \in BOOLEAN :
          IF read_ok
          THEN /\ eLeft' = positions
               /\ epc' = "closing"
          ELSE /\ eLeft' = {}
               /\ epc' = "done"
    /\ UNCHANGED <<storeVars, exchVars, loopVars, rpc, ridx, redis_positions, ord, gateVars, auxVars,
                   histVars>>

\* one position of emergency_stop's for loop
EmergencyClose ==
    /\ epc = "closing"
    /\ \E pos \in eLeft, info \in InfoOutcomes, run \in CleanRuns, store_ok \in BOOLEAN :
          LET g == gateway_close_position(exPos[pos.pair], symbol_info, info, run)
          IN  /\ exPos' = [exPos EXCEPT ![pos.pair] = g.newPos]
              /\ positions' = IF g.success /\ store_ok
                              THEN {q \in positions : q.position_id # pos.position_id}
                              ELSE positions
              /\ eLeft' = eLeft \ {pos}
    /\ UNCHANGED <<signals, trades, initial_capital, symbol_info, loopVars, rpc, ridx,
                   redis_positions, epc, ord, gateVars, auxVars, histVars>>

\* emergency_stop returns its summary
EmergencyDone ==
    /\ epc = "closing"
    /\ eLeft = {}
    /\ epc' = "done"
    /\ UNCHANGED <<storeVars, exchVars, loopVars, rpc, ridx, redis_positions, eLeft,
                   ord, gateVars, auxVars, histVars>>

InitRecon ==
    /\ signals = [q \in Pairs |-> NoSignal]
    /\ \E held \in SUBSET (1..Len(pairs_list)) :
          positions = {StoredPosition(pairs_list[i], i) : i \in held}
    /\ trades = <<>>
    /\ initial_capital \in InitialCapitals
    /\ exPos \in [Pairs -> StartupHoldings]
    /\ symbol_info = TRUE
    /\ pc = "off"
    /\ idx = 1
    /\ monLeft = {}
    /\ consecutive_losses = 0
    /\ daily_trades_count = 0
    /\ attempted_signals = {}
    /\ drawdown = NotComputed
    /\ max_positions = 3
    /\ exe = NoExe
    /\ cls = NoCls
    /\ rpc = "start"
    /\ ridx = 1
    /\ redis_positions = {}
    /\ epc = "idle"
    /\ eLeft = {}
    /\ ord = NoOrd
    /\ gw = NoGw
    /\ call = NoCall
    /\ ghist = NoHist
    /\ tg = NoTg
    /\ sg = NoSg
    /\ boots = 0
    /\ daily_count_key = 0
    /\ made = NoneMade
    /\ notes = <<>>
    /\ execCount = [i \in 1..(MaxSignals + MaxLossSignals) |-> 0]
    /\ nextSig = 1
    /\ nextPos = Len(pairs_list) + 1

NextRecon ==
    \/ ReconcileStart
    \/ ReconcilePair
    \/ ReconcileNotify
    \/ ReconcileDone
    \/ StartLoops
    \/ EmergencyStart
    \/ EmergencyClose
    \/ EmergencyDone

SpecRecon == InitRecon /\ [][NextRecon]_vars

----------------------------------------------------------------------------
(* The gateway object seen alone: its operations called in any order, on  *)
(* every outcome of their outbound calls, while the clock advances        *)

\* the clock advances in steps of one price TTL
TimeStep == PRICE_CACHE_TTL

\* the balance and the price the exchange answers
GwBalance == 70000
GwPrice == 20000

\* outcomes of the attempts of an order as far as the wrapper's state goes
GwAttemptSeqs == [0..(MaxAttempts - 1) -> {"ok", "rate_limit"}]

\* the record of a call of operation op in wrapper state g that did d:
\* `expired` tells that a backoff window had run out and was still on
\* record when the call began, `fetched` the value a successful query got
Called(op, symbol, g, out, fetched, d) ==
    [op |-> op, symbol |-> symbol, out |-> out,
     expired |-> g.rate_limited_until > 0 /\ g.now >= g.rate_limited_until,
     fetched |-> IF d.outbound = 1 /\ out = "ok" THEN fetched ELSE 0, result |-> d.result, raised |-> d.raised,
     outbound |-> d.outbound, checked |-> d.checked, signal |-> d.signal]

\* the history after the call: when the last successful balance and price
\* queries were made, and how long the latest backoff window is as long as
\* no outbound call has come back without a rate-limit error since
Recorded(h, op, symbol, g, out, d) ==
    [balance_q |-> IF op = "get_account_balance" /\ d.outbound = 1 /\ out = "ok"
                   THEN g.now ELSE h.balance_q,
     price_q |-> IF op = "get_current_price" /\ d.outbound = 1 /\ out = "ok"
                 THEN [h.price_q EXCEPT ![symbol] = g.now] ELSE h.price_q,
     prev_window |-> IF d.checked /\ d.signal
                     THEN d.gw.rate_limited_until - g.now
                     ELSE IF d.outbound >= 1 /\ ~d.signal
                               /\ ~(g.now < g.rate_limited_until)
                     THEN 0
                     ELSE h.prev_window]

GwDoes(op, symbol, out, fetched, d) ==
    /\ gw' = d.gw
    /\ call' = Called(op, symbol, gw, out, fetched, d)
    /\ ghist' = Recorded(ghist, op, symbol, gw, out, d)
    /\ UNCHANGED <<storeVars, exchVars, loopVars, reconVars, ord, auxVars, histVars>>

\* time passes between two calls; `call` holds the last call made at the
\* present time
GwTickOn(step, ticks) ==
    /\ gw.now < StartTime + ticks * step
    /\ gw' = [gw EXCEPT !.now = gw.now + step]
    /\ call' = NoCall
    /\ UNCHANGED <<storeVars, exchVars, loopVars, reconVars, ord, ghist, auxVars, histVars>>

GwTick == GwTickOn(TimeStep, MaxTicks)

GwGetAccountBalanceOn(Fetched) ==
    \E out \in BalanceOutcomes, fetched \in Fetched :
        GwDoes("get_account_balance", "", out, fetched, get_account_balance(gw, out, fetched))

GwGetAccountBalance == GwGetAccountBalanceOn({GwBalance})

GwGetCurrentPriceOn(Symbols, Fetched) ==
    \E symbol \in Symbols, out \in QueryOutcomes, fetched \in Fetched :
        GwDoes("get_current_price", symbol, out, fetched,
               get_current_price(gw, symbol, out, fetched))

GwGetCurrentPrice == GwGetCurrentPriceOn({pairs_list[1]}, {GwPrice})

GwGetKlines ==
    \E out \in QueryOutcomes : GwDoes("get_klines", "", out, 0, get_klines(gw, out))

GwPlaceMarketOrder ==
    \E outs \in GwAttemptSeqs :
        GwDoes("place_market_order", "", "attempts", 0, place_market_order_on(gw, outs))

GwGetPositionInfo ==
    \E out \in QueryOutcomes :
        \* BinanceAPIException gives None; any other exception propagates
        GwDoes("get_position_info", "", out, 0, unguarded_query(gw, out))

GwClosePosition ==
    \E info \in QueryOutcomes, outs \in GwAttemptSeqs :
        GwDoes("close_position", "", info, 0, close_position_on(gw, info, outs))

GwSetLeverage ==
    \E out \in QueryOutcomes : GwDoes("set_leverage", "", out, 0, unguarded_query(gw, out))

GwGetOpenOrders ==
    \E out \in QueryOutcomes : GwDoes("get_open_orders", "", out, 0, unguarded_query(gw, out))

GwCancelAllOrders ==
    \E out \in QueryOutcomes :
        GwDoes("cancel_all_orders", "", out, 0, unguarded_query(gw, out))

InitGateway ==
    /\ signals = [q \in Pairs |-> NoSignal]
    /\ positions = {}
    /\ trades = <<>>
    /\ initial_capital \in InitialCapitals
    /\ exPos = [q \in Pairs |-> 0]
    /\ symbol_info = TRUE
    /\ pc = "sleep"
    /\ idx = 1
    /\ monLeft = {}
    /\ consecutive_losses = 0
    /\ daily_trades_count = 0
    /\ attempted_signals = {}
    /\ drawdown = NotComputed
    /\ max_positions = 3
    /\ exe = NoExe
    /\ cls = NoCls
    /\ rpc = "done"
    /\ ridx = 1
    /\ redis_positions = {}
    /\ epc = "idle"
    /\ eLeft = {}
    /\ ord = NoOrd
    /\ gw = NoGw
    /\ call = NoCall
    /\ ghist = NoHist
    /\ tg = NoTg
    /\ sg = NoSg
    /\ boots = 0
    /\ daily_count_key = 0
    /\ made = NoneMade
    /\ notes = <<>>
    /\ execCount = [i \in 1..(MaxSignals + MaxLossSignals) |-> 0]
    /\ nextSig = 1
    /\ nextPos = 1

NextGateway ==
    \/ GwTick
    \/ GwGetAccountBalance
    \/ GwGetCurrentPrice
    \/ GwGetKlines
    \/ GwPlaceMarketOrder
    \/ GwGetPositionInfo
    \/ GwClosePosition
    \/ GwSetLeverage
    \/ GwGetOpenOrders
    \/ GwCancelAllOrders

SpecGateway == InitGateway /\ [][NextGateway]_vars

----------------------------------------------------------------------------
(* The two cached queries of the gateway, with answers that differ from    *)
(* the cached ones and a balance entry that comes of age                   *)

\* balances and prices the exchange can answer
CacheBalances == {70000, 80000}
CachePrices == {20000, 20200}
\* the symbols whose price is asked for
CacheSymbols == Pairs

\* the balance cache when the observation starts: empty, or holding the
\* balance that main() read one step less than a TTL ago
StartupCaches ==
    {NoGw.balance_cache,
     [balance |-> 70000, ts |-> StartTime - (BALANCE_CACHE_TTL - TimeStep)]}

InitCache ==
    /\ signals = [q \in Pairs |-> NoSignal]
    /\ positions = {}
    /\ trades = <<>>
    /\ initial_capital \in InitialCapitals
    /\ exPos = [q \in Pairs |-> 0]
    /\ symbol_info = TRUE
    /\ pc = "sleep"
    /\ idx = 1
    /\ monLeft = {}
    /\ consecutive_losses = 0
    /\ daily_trades_count = 0
    /\ attempted_signals = {}
    /\ drawdown = NotComputed
    /\ max_positions = 3
    /\ exe = NoExe
    /\ cls = NoCls
    /\ rpc = "done"
    /\ ridx = 1
    /\ redis_positions = {}
    /\ epc = "idle"
    /\ eLeft = {}
    /\ ord = NoOrd
    /\ \E held \in StartupCaches : gw = [NoGw EXCEPT !.balance_cache = held]
    /\ call = NoCall
    /\ ghist = [NoHist EXCEPT !.balance_q = gw.balance_cache.ts]
    /\ tg = NoTg
    /\ sg = NoSg
    /\ boots = 0
    /\ daily_count_key = 0
    /\ made = NoneMade
    /\ notes = <<>>
    /\ execCount = [i \in 1..(MaxSignals + MaxLossSignals) |-> 0]
    /\ nextSig = 1
    /\ nextPos = 1

CacheTick == GwTickOn(TimeStep, MaxCacheTicks)

CacheGetAccountBalance == GwGetAccountBalanceOn(CacheBalances)

CacheGetCurrentPrice == GwGetCurrentPriceOn(CacheSymbols, CachePrices)

NextCache ==
    \/ CacheTick
    \/ CacheGetAccountBalance
    \/ CacheGetCurrentPrice

SpecCache == InitCache /\ [][NextCache]_vars

----------------------------------------------------------------------------
(* The gateway's close_position seen alone: one call for every holding of  *)
(* the exchange, every outcome of the position query and every run of the  *)
(* order's attempts                                                        *)

\* what the exchange holds for the pair when close_position is called:
\* nothing, a LONG, a SHORT, and a LONG of 0.043
CloseHoldings == {0, 5000, 0 - 5000, 430}

\* close_position(symbol) on the exchange: call.info is what
\* futures_position_information does, call.outs what the attempts of the
\* order do
GatewayClosePosition ==
    /\ call.op = "close_position"
    /\ ~call.done
    /\ LET cur == exPos[call.symbol]
           pos_info == get_position_info(cur, call.info)
           r == order_attempts(0, call.outs)
           g == gateway_close_position(cur, symbol_info, call.info,
                                       [order |-> r.order, accepted |-> r.accepted])
       IN  /\ exPos' = [exPos EXCEPT ![call.symbol] = g.newPos]
           /\ call' = [call EXCEPT !.done = TRUE,
                                   !.held = cur,
                                   !.result = g.success,
                                   !.ordered = g.ordered,
                                   !.side = IF ~g.ordered THEN "NONE"
                                            ELSE IF pos_info.side = "LONG"
                                            THEN "SELL" ELSE "BUY",
                                   !.sent = IF g.ordered
                                            THEN round_quantity(symbol_info,
                                                                pos_info.quantity)
                                            ELSE 0,
                                   !.accepted = IF g.ordered THEN r.accepted ELSE 0]
    /\ UNCHANGED <<storeVars, symbol_info, loopVars, reconVars, ord, gw, ghist, auxVars,
                   histVars>>

InitClose ==
    /\ signals = [q \in Pairs |-> NoSignal]
    /\ positions = {}
    /\ trades = <<>>
    /\ initial_capital \in InitialCapitals
    /\ \E held \in CloseHoldings : exPos = [q \in Pairs |-> held]
    /\ symbol_info \in BOOLEAN
    /\ pc = "sleep"
    /\ idx = 1
    /\ monLeft = {}
    /\ consecutive_losses = 0
    /\ daily_trades_count = 0
    /\ attempted_signals = {}
    /\ drawdown = NotComputed
    /\ max_positions = 3
    /\ exe = NoExe
    /\ cls = NoCls
    /\ rpc = "done"
    /\ ridx = 1
    /\ redis_positions = {}
    /\ epc = "idle"
    /\ eLeft = {}
    /\ ord = NoOrd
    /\ gw = NoGw
    /\ call \in [op : {"close_position"}, symbol : {pairs_list[1]}, done : {FALSE},
                 info : InfoOutcomes, outs : AttemptSeqs, held : {0},
                 result : {FALSE}, ordered : {FALSE}, side : {"NONE"}, sent : {0},
                 accepted : {0}]
    /\ ghist = NoHist
    /\ tg = NoTg
    /\ sg = NoSg
    /\ boots = 0
    /\ daily_count_key = 0
    /\ made = NoneMade
    /\ notes = <<>>
    /\ execCount = [i \in 1..(MaxSignals + MaxLossSignals) |-> 0]
    /\ nextSig = 1
    /\ nextPos = 1

NextClose == GatewayClosePosition

SpecClose == InitClose /\ [][NextClose]_vars

----------------------------------------------------------------------------
(* core/safeguards.py validate_trade seen alone: one call on every        *)
(* decision and portfolio state of the bounded sets, each read of the     *)
(* call succeeding or raising                                              *)

\* a decision that meets every limit exactly, and decisions that miss one
\* or two of them by the smallest amount
FairDecision ==
    [confidence |-> MinConfidence, risk_reward_ratio |-> MinRR100,
     sl_pct |-> MaxSlDistance100, position_size_pct |-> RiskPerTrade100,
     position_size_usd |-> 100]
Decisions ==
    {FairDecision,
     [FairDecision EXCEPT !.confidence = MinConfidence - 1],
     [FairDecision EXCEPT !.risk_reward_ratio = MinRR100 - 1],
     [FairDecision EXCEPT !.sl_pct = MaxSlDistance100 + 1],
     [FairDecision EXCEPT !.position_size_pct = RiskPerTrade100 + 1],
     [FairDecision EXCEPT !.position_size_usd = 101],
     [FairDecision EXCEPT !.confidence = MinConfidence - 1,
                          !.risk_reward_ratio = MinRR100 - 1]}

\* open positions (each of size 450 USDT) and the minutes since the latest
\* one of the decision's pair was opened
OpenSize == 450
OpenStates ==
    {[open_count |-> 0, pair_elapsed |-> NoPairPosition],
     [open_count |-> 2, pair_elapsed |-> NoPairPosition],
     [open_count |-> 2, pair_elapsed |-> MinSpacingMinutes - 1],
     [open_count |-> 2, pair_elapsed |-> MinSpacingMinutes],
     [open_count |-> 3, pair_elapsed |-> MinSpacingMinutes]}
\* what get_account_balance returns (0: an API error with nothing cached)
SgBalances == {0, 8000, 8001, 10000}
SgCapitals == {0, 10000}
SgDailyCounts == {MaxTradesPerDay - 1, MaxTradesPerDay}
SgLosses == {0, LossPauseCount}

\* the portfolio state of one call and, for every read the call makes,
\* whether it succeeds: the store read of check 5, of check 6 and of check 9,
\* the gateway's balance, the store's initial capital, daily counter and
\* recent trades
Ambients ==
    {[open_count |-> o.open_count, open_size |-> OpenSize,
      pair_elapsed |-> o.pair_elapsed, balance |-> b, initial |-> c,
      daily_count |-> n, losses |-> l,
      slots_read_ok |-> r[1], exposure_read_ok |-> r[2], spacing_read_ok |-> r[3],
      balance_ok |-> r[4], capital_ok |-> r[5], counter_ok |-> r[6],
      trades_ok |-> r[7]] :
        o \in OpenStates, b \in SgBalances, c \in SgCapitals, n \in SgDailyCounts,
        l \in SgLosses, r \in [1..7 -> BOOLEAN]}

ValidateTrade ==
    /\ sg.called = FALSE
    /\ sg' = [sg EXCEPT !.called = TRUE,
                        !.result = validate_trade(sg.decision, sg.ambient, max_positions)]
    /\ UNCHANGED <<storeVars, exchVars, loopVars, reconVars, ord, gateVars, tg, boots, daily_count_key,
                   made, histVars>>

InitSafeguards ==
    /\ signals = [q \in Pairs |-> NoSignal]
    /\ positions = {}
    /\ trades = <<>>
    /\ initial_capital \in InitialCapitals
    /\ exPos = [q \in Pairs |-> 0]
    /\ symbol_info = TRUE
    /\ pc = "off"
    /\ idx = 1
    /\ monLeft = {}
    /\ consecutive_losses = 0
    /\ daily_trades_count = 0
    /\ attempted_signals = {}
    /\ drawdown = NotComputed
    /\ max_positions = 3
    /\ exe = NoExe
    /\ cls = NoCls
    /\ rpc = "done"
    /\ ridx = 1
    /\ redis_positions = {}
    /\ epc = "idle"
    /\ eLeft = {}
    /\ ord = NoOrd
    /\ gw = NoGw
    /\ call = NoCall
    /\ ghist = NoHist
    /\ tg = NoTg
    /\ sg \in [called : {FALSE}, decision : Decisions, ambient : Ambients,
               result : {[raised |-> FALSE, evaluated |-> 0, report |-> NoReport]}]
    /\ boots = 0
    /\ daily_count_key = 0
    /\ made = NoneMade
    /\ notes = <<>>
    /\ execCount = [i \in 1..(MaxSignals + MaxLossSignals) |-> 0]
    /\ nextSig = 1
    /\ nextPos = 1

NextSafeguards == ValidateTrade

SpecSafeguards == InitSafeguards /\ [][NextSafeguards]_vars

----------------------------------------------------------------------------
(* execute_signal seen alone once more, for the stop-loss it persists: on  *)
(* a symbol priced in cents, and on fills away from the ticker price       *)

StopSizes   == {10000}
\* a missing stop-loss (read as 0), a negative one and a set one
StopStops   == {0, 0 - 100, 19000}
StopTargets == {0}
\* no reference price: the slippage gate is not evaluated
StopRefs    == {0}
\* the ticker price of a symbol such as BTC/USDT, and the fills of a market
\* order at, 3.5 % under and 3.5 % over it
FarPrices   == {20000}
FarFillDeltas == {0 - 700, 0, 700}
\* ticker prices of 0.16 and 0.01 USDT
CheapPrices == {1, 16}

ExecuteFar ==
    ExecuteSignalOn(MarketData(StopSizes, StopStops, StopTargets, StopRefs), FarPrices,
                    FarFillDeltas, CleanRuns)

ExecuteCheap ==
    ExecuteSignalOn(MarketData(StopSizes, StopStops, StopTargets, StopRefs), CheapPrices,
                    {0}, CleanRuns)

NextStop ==
    \/ ExecuteFar
    \/ ExecuteCheap
    \/ NotifyAfterExecute

SpecStop == InitOpen /\ [][NextStop]_vars

----------------------------------------------------------------------------
(* monitor_positions and close_position over several ticks, on a position *)
(* that is open when the loop starts and whose stop-loss is reached       *)

\* quantities of the open position, in 1/10000: 0.5 and 0.043
HeldQuantities == {5000, 430}
HeldEntry      == 20000
HeldStop       == 19400
\* the price at each monitoring: not available, or at the stop-loss
HeldMonPrices  == {0, 19400}
\* Trades followed per run, and the largest net position on the exchange
\* from which a close is still followed
MaxTrades      == 2
MaxHeldUnits   == 10000

Held(quantity) ==
    [position_id |-> 1, pair |-> pairs_list[1], side |-> "LONG",
     entry_price |-> HeldEntry, size |-> quantity * HeldEntry, quantity |-> quantity,
     stop_loss |-> HeldStop, take_profit |-> 0, signal_id |-> 1]

MonitorHeld ==
    /\ Len(trades) < MaxTrades
    /\ \A q \in Pairs : Abs(exPos[q]) <= MaxHeldUnits
    /\ MonitorPositionOn(HeldMonPrices, OrderRuns)

InitMonitor ==
    /\ signals = [q \in Pairs |-> NoSignal]
    /\ \E quantity \in HeldQuantities :
          /\ positions = {Held(quantity)}
          /\ exPos = [q \in Pairs |-> IF q = pairs_list[1] THEN quantity ELSE 0]
    /\ trades = <<>>
    /\ initial_capital \in InitialCapitals
    /\ symbol_info = TRUE
    /\ pc = "sleep"
    /\ idx = 1
    /\ monLeft = {}
    /\ consecutive_losses = 0
    /\ daily_trades_count = 0
    /\ attempted_signals = {1}
    /\ drawdown = NotComputed
    /\ max_positions \in MaxPositionsChoices
    /\ exe = NoExe
    /\ cls = NoCls
    /\ rpc = "done"
    /\ ridx = 1
    /\ redis_positions = {}
    /\ epc = "idle"
    /\ eLeft = {}
    /\ ord = NoOrd
    /\ gw = NoGw
    /\ call = NoCall
    /\ ghist = NoHist
    /\ tg = NoTg
    /\ sg = NoSg
    /\ boots = 0
    /\ daily_count_key = 0
    /\ made = NoneMade
    /\ notes = <<>>
    /\ execCount = [i \in 1..(MaxSignals + MaxLossSignals) |-> 0]
    /\ nextSig = 2
    /\ nextPos = 2

NextMonitor ==
    \/ TickStart
    \/ BreakerNotify
    \/ Wake
    \/ CheckPair
    \/ StartMonitor
    \/ MonitorHeld
    \/ NotifyClosed
    \/ MonitorDone

SpecMonitor == InitMonitor /\ [][NextMonitor]_vars

----------------------------------------------------------------------------
(* main(): reconcile_positions at startup, then the execution loop with   *)
(* the pipeline beside it, with a notifier that is configured or not      *)

\* signals the pipeline saves once the loops run
MaxBotSignals == 1
BotPrices     == {20000, 20200}

PipelineSavesOne ==
    PipelineSavesSignalOn(MaxBotSignals, LossPairs, LossActions, {MinConfidence})

ExecuteBot ==
    ExecuteSignalOn(MarketData(LossSizes, LoopStops, LossTargets, LoopRefs), BotPrices,
                    {0}, CleanRuns)

InitBot ==
    /\ signals = [q \in Pairs |-> NoSignal]
    /\ \E held \in SUBSET (1..Len(pairs_list)) :
          positions = {StoredPosition(pairs_list[i], i) : i \in held}
    /\ trades = <<>>
    /\ initial_capital \in InitialCapitals
    /\ exPos \in [Pairs -> StartupHoldings]
    /\ symbol_info = TRUE
    /\ pc = "off"
    /\ idx = 1
    /\ monLeft = {}
    /\ consecutive_losses = 0
    /\ daily_trades_count = 0
    /\ attempted_signals = {}
    /\ drawdown = NotComputed
    /\ max_positions = 3
    /\ exe = NoExe
    /\ cls = NoCls
    /\ rpc = "start"
    /\ ridx = 1
    /\ redis_positions = {}
    /\ epc = "idle"
    /\ eLeft = {}
    /\ ord = NoOrd
    /\ gw = NoGw
    /\ call = NoCall
    /\ ghist = NoHist
    /\ tg \in {NoTg, Unconfigured}
    /\ sg = NoSg
    /\ boots = 0
    /\ daily_count_key = 0
    /\ made = NoneMade
    /\ notes = <<>>
    /\ execCount = [i \in 1..(MaxSignals + MaxLossSignals) |-> 0]
    /\ nextSig = 1
    /\ nextPos = Len(pairs_list) + 1

NextBot ==
    \/ ReconcileStart
    \/ ReconcilePair
    \/ ReconcileNotify
    \/ ReconcileDone
    \/ StartLoops
    \/ PipelineSavesOne
    \/ TimePasses
    \/ TickStart
    \/ BreakerNotify
    \/ Wake
    \/ CheckPair
    \/ ExecuteBot
    \/ NotifyAfterExecute
    \/ StartMonitor
    \/ MonitorAtExit
    \/ NotifyClosed
    \/ MonitorDone

SpecBot == InitBot /\ [][NextBot]_vars

----------------------------------------------------------------------------
(* The process crashes and is started again: what lives in the objects of *)
(* main() is lost, what is in the store and on the exchange stays         *)

\* restarts followed per run
MaxBoots == 1

\* the process ends at any point after its start (kill, power loss, the
\* exception main() re-raises) and main() runs again: ExecutionLoop.__init__
\* gives empty counters and an empty attempted set, the gateway object is
\* new, reconcile_positions runs before the loops.  The startup
\* notification of main() changes nothing here.
CrashRestart ==
    /\ boots < MaxBoots
    /\ pc # "off" \/ rpc # "start"
    /\ boots' = boots + 1
    /\ pc' = "off"
    /\ idx' = 1
    /\ monLeft' = {}
    /\ consecutive_losses' = 0
    /\ daily_trades_count' = 0
    /\ attempted_signals' = {}
    /\ drawdown' = NotComputed
    /\ exe' = NoExe
    /\ cls' = NoCls
    /\ rpc' = "start"
    /\ ridx' = 1
    /\ redis_positions' = {}
    /\ gw' = NoGw
    /\ call' = NoCall
    /\ tg' = Quiet(tg)
    /\ notes' = <<>>
    /\ UNCHANGED <<storeVars, exchVars, max_positions, epc, eLeft, ord, ghist, sg,
                   daily_count_key, made,
                   execCount, nextSig, nextPos>>

InitRestart ==
    /\ signals = [q \in Pairs |-> NoSignal]
    /\ positions = {}
    /\ trades = <<>>
    /\ initial_capital \in InitialCapitals
    /\ exPos = [q \in Pairs |-> 0]
    /\ symbol_info = TRUE
    /\ pc = "off"
    /\ idx = 1
    /\ monLeft = {}
    /\ consecutive_losses = 0
    /\ daily_trades_count = 0
    /\ attempted_signals = {}
    /\ drawdown = NotComputed
    /\ max_positions = 3
    /\ exe = NoExe
    /\ cls = NoCls
    /\ rpc = "start"
    /\ ridx = 1
    /\ redis_positions = {}
    /\ epc = "idle"
    /\ eLeft = {}
    /\ ord = NoOrd
    /\ gw = NoGw
    /\ call = NoCall
    /\ ghist = NoHist
    /\ tg = NoTg
    /\ sg = NoSg
    /\ boots = 0
    /\ daily_count_key = 0
    /\ made = NoneMade
    /\ notes = <<>>
    /\ execCount = [i \in 1..(MaxSignals + MaxLossSignals) |-> 0]
    /\ nextSig = 1
    /\ nextPos = 1

NextRestart ==
    \/ NextBot
    \/ CrashRestart

SpecRestart == InitRestart /\ [][NextRestart]_vars

----------------------------------------------------------------------------
(* monitor_positions seen alone, on one open position with every          *)
(* combination of stop-loss, take-profit and latest signal                *)

TrigSides   == {"LONG", "SHORT"}
\* no stop-loss / take-profit (0), one below the entry and one above it
TrigStops   == {0, 19400, 20600}
TrigTargets == {0, 19400, 20600}
\* the latest signal of the pair: none, or one on either side of each test
TrigSignals ==
    {NoSignal} \cup
    [id : {1}, action : Actions, confidence : {MinConfidence - 1, MinConfidence},
     age : {"fresh", "stale"}]
\* prices: not available, at and next to the two levels, and between them
\* at a gross gain below, equal to and above the two-sided fee of 0.08 %
TrigPrices  == {0, 19400, 19401, 20010, 20016, 20017, 20599, 20600}
TrigEntry   == 20000
TrigQuantity == 5000

Watched(side, stop, target) ==
    [position_id |-> 1, pair |-> pairs_list[1], side |-> side,
     entry_price |-> TrigEntry, size |-> TrigQuantity * TrigEntry,
     quantity |-> TrigQuantity, stop_loss |-> stop, take_profit |-> target,
     signal_id |-> 0]

MonitorWatched == MonitorPositionOn(TrigPrices, CleanRuns)

InitTriggers ==
    /\ \E side \in TrigSides, stop \in TrigStops, target \in TrigTargets :
          /\ positions = {Watched(side, stop, target)}
          /\ monLeft = {Watched(side, stop, target)}
          /\ exPos = [q \in Pairs |->
                        IF q # pairs_list[1] THEN 0
                        ELSE IF side = "LONG" THEN TrigQuantity ELSE 0 - TrigQuantity]
    /\ \E latest \in TrigSignals :
          signals = [q \in Pairs |-> IF q = pairs_list[1] THEN latest ELSE NoSignal]
    /\ trades = <<>>
    /\ initial_capital \in InitialCapitals
    /\ symbol_info = TRUE
    /\ pc = "monitor"
    /\ idx = 1
    /\ consecutive_losses \in 0..(LossLimit - 1)
    /\ daily_trades_count \in {0, DailyLimit - 1}
    /\ attempted_signals = {}
    /\ drawdown = 0
    /\ max_positions = 3
    /\ exe = NoExe
    /\ cls = NoCls
    /\ rpc = "done"
    /\ ridx = 1
    /\ redis_positions = {}
    /\ epc = "idle"
    /\ eLeft = {}
    /\ ord = NoOrd
    /\ gw = NoGw
    /\ call = NoCall
    /\ ghist = NoHist
    /\ tg = NoTg
    /\ sg = NoSg
    /\ boots = 0
    /\ daily_count_key = 0
    /\ made = NoneMade
    /\ notes = <<>>
    /\ execCount = [i \in 1..(MaxSignals + MaxLossSignals) |-> 0]
    /\ nextSig = 2
    /\ nextPos = 2

NextTriggers ==
    \/ MonitorWatched
    \/ NotifyClosed
    \/ MonitorDone

SpecTriggers == InitTriggers /\ [][NextTriggers]_vars

----------------------------------------------------------------------------
(* The loop late on a trading day: the counter of the day's trades is at  *)
(* or next to a cap, positions of earlier trades are still open           *)

\* daily_trades_count when the specification starts: one below
\* settings.max_trades_per_day, at it, and one below the cap of run()
DayCounts == {MaxTradesPerDay - 1, MaxTradesPerDay, DailyLimit - 1}

InitDaily ==
    /\ signals = [q \in Pairs |-> NoSignal]
    /\ \E held \in SUBSET (1..Len(pairs_list)) :
          /\ positions = {StoredPosition(pairs_list[i], i) : i \in held}
          /\ exPos = [q \in Pairs |->
                        IF \E i \in held : pairs_list[i] = q THEN 5000 ELSE 0]
    /\ trades = <<>>
    /\ initial_capital \in InitialCapitals
    /\ symbol_info = TRUE
    /\ pc = "sleep"
    /\ idx = 1
    /\ monLeft = {}
    /\ consecutive_losses = 0
    /\ daily_trades_count \in DayCounts
    /\ attempted_signals = {}
    /\ drawdown = NotComputed
    /\ max_positions = 3
    /\ exe = NoExe
    /\ cls = NoCls
    /\ rpc = "done"
    /\ ridx = 1
    /\ redis_positions = {}
    /\ epc = "idle"
    /\ eLeft = {}
    /\ ord = NoOrd
    /\ gw = NoGw
    /\ call = NoCall
    /\ ghist = NoHist
    /\ tg = NoTg
    /\ sg = NoSg
    /\ boots = 0
    /\ daily_count_key = 0
    /\ made = NoneMade
    /\ notes = <<>>
    /\ execCount = [i \in 1..(MaxSignals + MaxLossSignals) |-> 0]
    /\ nextSig = 1
    /\ nextPos = Len(pairs_list) + 1

NextDaily ==
    \/ PipelineSavesOne
    \/ TimePasses
    \/ TickStart
    \/ BreakerNotify
    \/ Wake
    \/ CheckPair
    \/ ExecuteBot
    \/ NotifyAfterExecute
    \/ StartMonitor
    \/ MonitorAtExit
    \/ NotifyClosed
    \/ MonitorDone

SpecDaily == InitDaily /\ [][NextDaily]_vars

----------------------------------------------------------------------------
(* The running loop on Positions the store still holds while the exchange  *)
(* may already be flat for their pair (closed on the exchange's side, or   *)
(* by a closing order whose response was lost): every price offered is at  *)
(* or under the stop, so the exit condition holds at every pass            *)

FlatPrices   == {19300, 19400}
FlatHoldings == {0, 5000}

\* a fresh signal waiting for a pair
WaitingSignal(i) ==
    [id |-> i, action |-> "BUY", confidence |-> MinConfidence, age |-> "fresh"]

MonitorFlat == MonitorPositionOn(FlatPrices, CleanRuns)

InitFlat ==
    /\ \E held \in (SUBSET (1..Len(pairs_list))) \ {{}} :
          /\ positions = {StoredPosition(pairs_list[i], i) : i \in held}
          /\ exPos \in [Pairs -> FlatHoldings]
          /\ \A i \in 1..Len(pairs_list) : i \notin held => exPos[pairs_list[i]] = 0
          /\ signals \in [Pairs -> {NoSignal} \cup {WaitingSignal(i) : i \in held}]
          /\ \A i \in 1..Len(pairs_list) :
                signals[pairs_list[i]] \in {NoSignal, WaitingSignal(i)}
          /\ \A i \in held :
                exPos[pairs_list[i]] # 0 => signals[pairs_list[i]] = NoSignal
    /\ trades = <<>>
    /\ initial_capital \in InitialCapitals
    /\ symbol_info = TRUE
    /\ pc = "sleep"
    /\ idx = 1
    /\ monLeft = {}
    /\ consecutive_losses = 0
    /\ daily_trades_count = 0
    /\ attempted_signals = {}
    /\ drawdown = NotComputed
    /\ max_positions = 3
    /\ exe = NoExe
    /\ cls = NoCls
    /\ rpc = "done"
    /\ ridx = 1
    /\ redis_positions = {}
    /\ epc = "idle"
    /\ eLeft = {}
    /\ ord = NoOrd
    /\ gw = NoGw
    /\ call = NoCall
    /\ ghist = NoHist
    /\ tg = NoTg
    /\ sg = NoSg
    /\ boots = 0
    /\ daily_count_key = 0
    /\ made = NoneMade
    /\ notes = <<>>
    /\ execCount = [i \in 1..(MaxSignals + MaxLossSignals) |-> 0]
    /\ nextSig = Len(pairs_list) + 1
    /\ nextPos = Len(pairs_list) + 1

NextFlat ==
    \/ TickStart
    \/ BreakerNotify
    \/ Wake
    \/ CheckPair
    \/ StartMonitor
    \/ MonitorFlat
    \/ NotifyClosed
    \/ MonitorDone

\* the close sequence of position i runs to its end: the exchange accepts
\* the closing order and the store takes the trade and the removal
ClosedThrough(i) ==
    /\ MonitorFlat
    /\ cls'.called /\ cls'.position_id = i /\ cls'.snapshot

\* run() is one coroutine of the event loop: every await returns and every
\* sleep ends, so the loop always takes its next step (WF).  Failures of
\* the store, of the balance query and of the exchange are transient: a
\* step that can succeed again and again does succeed at some point (SF),
\* at the top of the tick, at each pair of check_signals, at the read of
\* the open positions and at the close of each position.
SpecFlat ==
    /\ InitFlat
    /\ [][NextFlat]_vars
    /\ WF_vars(NextFlat)
    /\ SF_vars(TickStart /\ pc' = "check")
    /\ \A i \in 1..Len(pairs_list) : SF_vars(CheckPair /\ idx = i /\ idx' = i + 1)
    /\ SF_vars(StartMonitor /\ pc' = "monitor")
    /\ \A i \in 1..Len(pairs_list) : SF_vars(ClosedThrough(i))

----------------------------------------------------------------------------
(* The top of the tick with the balance coming from the wrapper itself:    *)
(* get_account_balance on a cache that is empty, fresh or out of date, on  *)
(* every outcome of the query, then the drawdown breaker                   *)

\* USDT balances the exchange can report: 30 %, 20 % and 0 % under the
\* initial capital
DrawdownFetched == {70000, 80000, 100000}

\* the balance cache when run() starts: empty (main()'s query failed), or
\* holding what main() has just read
DrawdownCaches ==
    {NoGw.balance_cache} \cup
    {[balance |-> b, ts |-> StartTime] : b \in DrawdownFetched}

\* `drawdown = self._calculate_drawdown()`: the balance query through the
\* wrapper, the read of the initial capital, then the rest of the tick
TickQueried ==
    \E out \in BalanceOutcomes, fetched \in DrawdownFetched, capital_ok \in BOOLEAN :
        LET d == get_account_balance(gw, out, fetched) IN
        /\ gw' = d.gw
        /\ call' = Called("get_account_balance", "", gw, out, fetched, d)
        /\ ghist' = Recorded(ghist, "get_account_balance", "", gw, out, d)
        /\ TickOn({d.result}, {~d.raised /\ capital_ok})

\* the loop sleeps for as long as the balance cache lives
Slept ==
    /\ pc \in SleepPcs
    /\ GwTickOn(BALANCE_CACHE_TTL, MaxTicks)

InitDrawdown ==
    /\ signals = [q \in Pairs |-> NoSignal]
    /\ positions = {}
    /\ trades = <<>>
    /\ initial_capital \in InitialCapitals
    /\ exPos = [q \in Pairs |-> 0]
    /\ symbol_info = TRUE
    /\ pc = "sleep"
    /\ idx = 1
    /\ monLeft = {}
    /\ consecutive_losses = 0
    /\ daily_trades_count = 0
    /\ attempted_signals = {}
    /\ drawdown = NotComputed
    /\ max_positions = 3
    /\ exe = NoExe
    /\ cls = NoCls
    /\ rpc = "done"
    /\ ridx = 1
    /\ redis_positions = {}
    /\ epc = "idle"
    /\ eLeft = {}
    /\ ord = NoOrd
    /\ \E held \in DrawdownCaches : gw = [NoGw EXCEPT !.balance_cache = held]
    /\ call = NoCall
    /\ ghist = [NoHist EXCEPT !.balance_q = gw.balance_cache.ts]
    /\ tg = NoTg
    /\ sg = NoSg
    /\ boots = 0
    /\ daily_count_key = 0
    /\ made = NoneMade
    /\ notes = <<>>
    /\ execCount = [i \in 1..(MaxSignals + MaxLossSignals) |-> 0]
    /\ nextSig = 1
    /\ nextPos = 1

NextDrawdown ==
    \/ Slept
    \/ Wake
    \/ TickQueried
    \/ BreakerNotify
    \/ CheckPair
    \/ StartMonitor
    \/ MonitorDone

SpecDrawdown == InitDrawdown /\ [][NextDrawdown]_vars

----------------------------------------------------------------------------
(* Properties *)

\* C1 (as stated): whichever operation removes a Position from the store
\* (close sequence, startup reconciliation, emergency stop), the exchange
\* holds no open position for that pair at the moment of the removal; a
\* failed position query never leads to removing a Position the exchange
\* still holds.
C1_RemovedOnlyWhenFlat ==
    [][\A q \in positions \ positions' : exPos'[q.pair] = 0]_vars

\* C2: when the gateway's close_position returns false in the close
\* sequence, nothing changes: no Trade is saved, the Position stays in the
\* store, consecutive_losses and daily_trades_count keep their values, no
\* snapshot is saved and no close notification is awaited or sent.
C2_FailedCloseChangesNothing ==
    [][(pc = "monitor" /\ cls'.called /\ ~cls'.success) =>
          /\ trades' = trades
          /\ positions' = positions
          /\ \E q \in positions' : q.position_id = cls'.position_id
          /\ consecutive_losses' = consecutive_losses
          /\ daily_trades_count' = daily_trades_count
          /\ ~cls'.snapshot
          /\ pc' = "monitor"
          /\ notes' = <<>>]_vars

\* a close whose gateway call failed while the position's trigger had fired
C2_Witness ==
    /\ pc = "monitor"
    /\ cls.called
    /\ ~cls.success
    /\ cls.reason = "SL"
    /\ \E q \in positions : q.position_id = cls.position_id

\* C3: in every reachable state of the loop, with the pipeline saving
\* signals at the loop's awaits, the store holds at most one open Position
\* per pair.
C3_OnePositionPerPair ==
    \A q1 \in positions : \A q2 \in positions : q1.pair = q2.pair => q1 = q2

\* check_signals has just passed over a fresh, eligible, never attempted
\* signal of a pair that has an open position
C3_Witness ==
    /\ pc = "check"
    /\ idx = 2
    /\ exe = NoExe
    /\ \E q \in positions :
          /\ q.pair = pairs_list[1]
          /\ signals[q.pair].id # 0
          /\ signals[q.pair].id # q.signal_id
          /\ signals[q.pair].age = "fresh"
          /\ signals[q.pair].confidence >= 60
          /\ signals[q.pair].action # "HOLD"
          /\ signals[q.pair].id \notin attempted_signals

\* C4: execute_signal is invoked at most once per signal id, whatever the
\* first invocation did (a signal outside its staleness window is never
\* executed at all).
C4_AtMostOnceExecution ==
    \A i \in DOMAIN execCount : execCount[i] <= 1

\* on a later tick check_signals has passed over a signal that is still
\* fresh and eligible, was executed once and left no position
C4_Witness ==
    /\ pc = "check"
    /\ idx = 2
    /\ exe = NoExe
    /\ signals[pairs_list[1]].id # 0
    /\ signals[pairs_list[1]].age = "fresh"
    /\ signals[pairs_list[1]].confidence >= 60
    /\ signals[pairs_list[1]].action # "HOLD"
    /\ execCount[signals[pairs_list[1]].id] = 1
    /\ positions = {}

\* C5: in every reachable state the number of open Positions is at most
\* max_positions.
C5_AtMostMaxPositions ==
    Cardinality(positions) <= max_positions

\* the slots are full and check_signals has passed over a fresh, eligible,
\* never attempted signal of a pair without a position
C5_Witness ==
    /\ pc = "check"
    /\ idx = 2
    /\ exe = NoExe
    /\ Cardinality(positions) = max_positions
    /\ \A q \in positions : q.pair # pairs_list[1]
    /\ signals[pairs_list[1]].id # 0
    /\ signals[pairs_list[1]].age = "fresh"
    /\ signals[pairs_list[1]].confidence >= 60
    /\ signals[pairs_list[1]].action # "HOLD"
    /\ signals[pairs_list[1]].id \notin attempted_signals

\* C6: on a tick whose drawdown exceeds the maximum (20 %, 2000 in 1/100
\* percent) the loop is at the breaker's notification or in its cooldown,
\* the notification is sent once before the cooldown, no signal is taken in
\* (nothing marked attempted, execute_signal not called), no position is
\* opened, and the only way on is the end of the cooldown, back to the top
\* of the loop.
C6_DrawdownBreakerPauses ==
    [][/\ drawdown' > 2000 =>
             /\ pc' \in {"dd_notify", "dd_sleep"}
             /\ pc' = "dd_notify" => notes' = <<>>
             /\ pc' = "dd_sleep" => notes' = <<"drawdown">>
             /\ exe' = NoExe
       /\ drawdown > 2000 =>
             /\ positions' = positions
             /\ attempted_signals' = attempted_signals
             /\ execCount' = execCount
             /\ pc' # pc => \/ pc = "dd_notify" /\ pc' = "dd_sleep"
                            \/ pc = "dd_sleep" /\ pc' = "tick"]_vars

\* the breaker's cooldown with a fresh eligible signal waiting in the store
C6_Witness ==
    /\ pc = "dd_sleep"
    /\ drawdown = 3000
    /\ notes = <<"drawdown">>
    /\ \E q \in Pairs :
          /\ signals[q].id # 0
          /\ signals[q].age = "fresh"
          /\ signals[q].confidence >= 60
          /\ signals[q].action # "HOLD"

\* C7 (as stated): at a tick that starts with three (or more) consecutive
\* losing closes counted, the consecutive-loss breaker trips: the loop goes
\* to its notification, sends exactly one, takes in no signal and opens no
\* position during the cooldown, and consecutive_losses is 0 when the
\* cooldown ends.
C7_TripsOnNextTick ==
    [][/\ (pc = "tick" /\ consecutive_losses >= 3 /\ pc' # "tick") => pc' = "cl_notify"
       /\ pc' = "cl_notify" => notes' = <<>>
       /\ pc' = "cl_sleep" => notes' = <<"cooling_off">>
       /\ pc \in {"cl_notify", "cl_sleep"} =>
             /\ positions' = positions
             /\ attempted_signals' = attempted_signals
             /\ execCount' = execCount
             /\ pc' # pc => \/ pc = "cl_notify" /\ pc' = "cl_sleep"
                            \/ pc = "cl_sleep" /\ pc' = "tick"
                                               /\ consecutive_losses' = 0]_vars

\* C7 (amended): the same, for a tick on which the balance and the initial
\* capital were read and the drawdown does not exceed the maximum.
C7_TripsUnlessDrawdown ==
    [][/\ (/\ pc = "tick"
           /\ consecutive_losses >= 3
           /\ pc' # "tick"
           /\ drawdown' >= 0
           /\ drawdown' <= 2000) => pc' = "cl_notify"
       /\ pc' = "cl_notify" => consecutive_losses' >= 3 /\ notes' = <<>>
       /\ pc' = "cl_sleep" => notes' = <<"cooling_off">>
       /\ pc \in {"cl_notify", "cl_sleep"} =>
             /\ positions' = positions
             /\ attempted_signals' = attempted_signals
             /\ execCount' = execCount
             /\ pc' # pc => \/ pc = "cl_notify" /\ pc' = "cl_sleep"
                            \/ pc = "cl_sleep" /\ pc' = "tick"
                                               /\ consecutive_losses' = 0]_vars

\* the cooldown after three losing closes in a row, notification sent
C7_Witness ==
    /\ pc = "cl_sleep"
    /\ consecutive_losses = 3
    /\ notes = <<"cooling_off">>
    /\ Len(trades) >= 3
    /\ \A i \in (Len(trades) - 2)..Len(trades) : trades[i].net_sign < 0

\* C8: when the open sequence's market order fails (place_market_order
\* returns None) no Position is persisted, the pair has no position, the
\* order-failure notification is the one awaited and then sent; and a
\* Position enters the store only in a call in which the gateway returned
\* an order.
C8_FailedOrderPersistsNothing ==
    [][/\ exe'.outcome = "order_failed" =>
             /\ \A q \in positions' : q.pair # exe'.pair /\ q.signal_id # exe'.signal_id
             /\ positions' = positions
             /\ \/ pc' = "fail_notify" /\ notes' = <<>>
                \/ pc' = "check" /\ notes' = <<"order_failed">>
       /\ \A q \in positions' \ positions :
             /\ exe'.order
             /\ exe'.position_id = q.position_id]_vars

\* the order failed and the notification went out
C8_Witness ==
    /\ exe.called
    /\ exe.ordered
    /\ exe.outcome = "order_failed"
    /\ notes = <<"order_failed">>
    /\ positions = {}

\* C9 (as stated): with a reference price supplied (> 0), a current price
\* further than 0.5 % from it means no order, no Position and exactly one
\* notification (the slippage one); at or below 0.5 % place_market_order
\* is called.
C9_SlippageGateAsStated ==
    (exe.called /\ exe.expected_price > 0) =>
        IF Abs(exe.current_price - exe.expected_price) * 200 > exe.expected_price
        THEN /\ ~exe.ordered
             /\ positions = {}
             /\ exPos[exe.pair] = 0
             /\ \/ pc = "slip_notify" /\ notes = <<>>
                \/ pc = "check" /\ notes = <<"slippage">>
        ELSE exe.ordered

\* C9 (amended): the same, for a signal whose position_size is not 0 and a
\* current price the gateway could supply (not 0).
C9_SlippageGate ==
    (/\ exe.called
     /\ exe.position_size # 0
     /\ exe.current_price # 0
     /\ exe.expected_price > 0) =>
        IF Abs(exe.current_price - exe.expected_price) * 200 > exe.expected_price
        THEN /\ ~exe.ordered
             /\ positions = {}
             /\ exPos[exe.pair] = 0
             /\ \/ pc = "slip_notify" /\ notes = <<>>
                \/ pc = "check" /\ notes = <<"slippage">>
        ELSE exe.ordered

\* an abort just above the threshold, its notification sent
C9_Witness ==
    /\ exe.called
    /\ exe.position_size # 0
    /\ exe.expected_price = 20000
    /\ exe.current_price = 20101
    /\ exe.outcome = "slippage"
    /\ notes = <<"slippage">>

\* C10 (as stated): place_market_order makes at most 3 submissions, sleeps
\* 1 s then 2 s between them, returns the first successful order, and when
\* every failure it met was transient (a network error or a generic API
\* error) it returns None only after the third submission failed.
C10_RetriesTransient ==
    (ord.called /\ ord.result.sent > 0) =>
        LET r == ord.result
            tried == 0..(r.submissions - 1)
        IN  /\ r.submissions \in 1..3
            /\ r.sleeps = SubSeq(<<1, 2>>, 1, r.submissions - 1)
            /\ r.order => /\ ord.outs[r.submissions - 1] = "ok"
                          /\ \A a \in tried : a < r.submissions - 1 => ord.outs[a] # "ok"
            /\ (/\ ~r.order
                /\ \A a \in tried :
                      ord.outs[a] \in {"api_error", "api_lost", "exception",
                                       "exception_lost"})
               => r.submissions = 3

C12_RoundsDownIdempotent ==
    ord.called =>
        LET once == round_quantity(ord.has_info, ord.quantity) IN
        /\ round_quantity(ord.has_info, once) = once
        /\ once <= ord.quantity
        /\ ord.result.sent <= ord.quantity

\* C13 (as stated): the gateway's close_position returns false without
\* placing an order when the exchange reports no position for the pair;
\* otherwise it issues a market order on the opposite side (SELL for LONG,
\* BUY for SHORT) for the position's full quantity and returns true
\* exactly when that order was accepted, so that after a true result the
\* exchange holds no position for the pair.
C13_CloseFlattens ==
    (call.op = "close_position" /\ call.done /\ call.info = "ok") =>
        IF call.held = 0
        THEN ~call.result /\ ~call.ordered /\ exPos[call.symbol] = 0
        ELSE /\ call.ordered
             /\ call.side = (IF call.held > 0 THEN "SELL" ELSE "BUY")
             /\ call.sent = (IF call.held > 0 THEN call.held ELSE 0 - call.held)
             /\ call.result <=> call.accepted >= 1
             /\ call.result => exPos[call.symbol] = 0

\* a step in which a gateway operation was called
GwCalled == call'.op # "none" /\ gateVars' # gateVars

\* C14 (as stated): while now < rate_limited_until no gateway operation
\* (price, balance, klines, order placement, position query, close,
\* leverage, open orders, cancel) makes an outbound exchange call.
C14_NoOutboundInWindow ==
    [][(GwCalled /\ gw.now < gw.rate_limited_until) => call'.outbound = 0]_vars

\* C15 (as stated): an API error with code -1003 returned to any gateway
\* operation opens a backoff window (rate_limited_until lies ahead of now
\* after the call); an API error with another code opens none and does
\* not lengthen the backoff.
C15_RateLimitSignalBacksOff ==
    [][GwCalled =>
          /\ call'.signal => gw'.rate_limited_until > gw.now
          /\ (call'.outbound >= 1 /\ ~call'.signal /\ ~call'.raised)
             => /\ gw'.rate_limited_until \in {gw.rate_limited_until, 0}
                /\ gw'.backoff_seconds \in {gw.backoff_seconds, 60}]_vars

\* C16 (as stated): when rate-limit signals follow one another, each on
\* the first outbound call after the previous window ended, the windows
\* last 60, 120, 240, 480, 600, 600 ... seconds: the window a rate-limit
\* error opens is twice as long as the one before, up to 600 s.
C16_BackoffDoubles ==
    [][(GwCalled /\ call'.checked /\ call'.signal) =>
          gw'.rate_limited_until - gw.now =
              (IF ghist.prev_window = 0 THEN 60
               ELSE IF 2 * ghist.prev_window > 600 THEN 600
               ELSE 2 * ghist.prev_window)]_vars

\* C17 (as stated): once a backoff window has expired, whichever gateway
\* operation is called next, backoff_seconds is back at 60 and
\* rate_limited_until is cleared (unless that very call is rate-limited
\* again), and the operation makes its outbound call.
C17_ResetWhicheverOperation ==
    [][(GwCalled /\ gw.rate_limited_until > 0 /\ gw.now >= gw.rate_limited_until) =>
          /\ (call'.checked \/ call'.op \notin {"get_account_balance", "get_current_price"})
             => call'.outbound >= 1
          /\ ~call'.signal => /\ gw'.backoff_seconds = 60
                              /\ gw'.rate_limited_until = 0]_vars

\* C17 (amended): once a backoff window has expired, every operation makes
\* its outbound calls again (balance and price unless their cache entry is
\* fresh).  The operations that test the window (get_klines, and
\* get_account_balance / get_current_price when their cache entry is not
\* fresh) put backoff_seconds back to 60 and clear rate_limited_until
\* before their outbound call, so that a rate-limit error on that call
\* opens a window of 60 s and leaves backoff_seconds at 120; every other
\* call leaves both fields as they were.
C17_ResetOnNextWindowTest ==
    [][(GwCalled /\ gw.rate_limited_until > 0 /\ gw.now >= gw.rate_limited_until) =>
          /\ (call'.checked \/ call'.op \notin {"get_account_balance", "get_current_price"})
             => call'.outbound >= 1
          /\ IF call'.checked
             THEN IF call'.signal
                  THEN /\ gw'.rate_limited_until = gw.now + 60
                       /\ gw'.backoff_seconds = 120
                  ELSE /\ gw'.rate_limited_until = 0
                       /\ gw'.backoff_seconds = 60
             ELSE /\ gw'.rate_limited_until = gw.rate_limited_until
                  /\ gw'.backoff_seconds = gw.backoff_seconds]_vars

\* a window ran out, was still on record when get_klines was called, and
\* the call cleared it and reached the exchange
C17_Witness ==
    /\ call.op = "get_klines"
    /\ call.expired
    /\ call.checked
    /\ call.outbound = 1
    /\ ~call.signal
    /\ gw.rate_limited_until = 0
    /\ gw.backoff_seconds = 60

\* C18: get_account_balance makes no exchange call and returns the cached
\* balance when the cache entry is younger than 300 s or a rate-limit
\* window is open; otherwise it queries the exchange and, the query
\* succeeding, stores the fetched balance with the time of the call and
\* returns it.  get_current_price does the same per symbol with 30 s (0
\* is returned when nothing is cached for the symbol), and touches no
\* other symbol's entry.  Hence two successful balance queries are at
\* least 300 s apart, and two successful price queries for one symbol at
\* least 30 s.
C18_CachePolicy ==
    [][GwCalled =>
          /\ call'.op = "get_account_balance" =>
                IF \/ gw.now - gw.balance_cache.ts < 300
                   \/ gw.now < gw.rate_limited_until
                THEN /\ call'.outbound = 0
                     /\ ~call'.raised
                     /\ call'.result = gw.balance_cache.balance
                     /\ gw'.balance_cache = gw.balance_cache
                ELSE /\ call'.outbound = 1
                     /\ call'.out = "ok" =>
                           /\ call'.result = call'.fetched
                           /\ gw'.balance_cache =
                                 [balance |-> call'.fetched, ts |-> gw.now]
                           /\ \/ ghist.balance_q = 0
                              \/ gw.now - ghist.balance_q >= 300
          /\ call'.op = "get_current_price" =>
                LET symbol == call'.symbol
                    entry  == gw.price_cache[symbol]
                IN  /\ \A q \in Pairs \ {symbol} :
                          gw'.price_cache[q] = gw.price_cache[q]
                    /\ IF \/ (entry.cached /\ gw.now - entry.ts < 30)
                          \/ gw.now < gw.rate_limited_until
                       THEN /\ call'.outbound = 0
                            /\ ~call'.raised
                            /\ call'.result = (IF entry.cached THEN entry.price ELSE 0)
                            /\ gw'.price_cache = gw.price_cache
                       ELSE /\ call'.outbound = 1
                            /\ call'.out = "ok" =>
                                  /\ call'.result = call'.fetched
                                  /\ gw'.price_cache[symbol] =
                                        [cached |-> TRUE, price |-> call'.fetched,
                                         ts |-> gw.now]
                                  /\ \/ ghist.price_q[symbol] = 0
                                     \/ gw.now - ghist.price_q[symbol] >= 30]_vars

\* the balance entry read 300 s ago has come of age: the exchange was
\* queried and answered another balance, which is now cached and returned,
\* while a price fetched 30 s ago is cached for one symbol and none for the
\* other
C18_Witness ==
    /\ call.op = "get_account_balance"
    /\ call.out = "ok"
    /\ call.outbound = 1
    /\ call.result = 80000
    /\ gw.balance_cache = [balance |-> 80000, ts |-> gw.now]
    /\ gw.now = StartTime + 30
    /\ gw.price_cache[pairs_list[1]] = [cached |-> TRUE, price |-> 20200, ts |-> StartTime]
    /\ ~gw.price_cache[pairs_list[2]].cached

\* C19 (as stated): when the outbound call of a balance or price query
\* fails, for any kind of failure, the gateway returns the last cached
\* value (0 when nothing was ever cached), leaves the caches unchanged and
\* raises nothing to the caller.
C19_FailureReturnsCached ==
    [][(/\ GwCalled
        /\ call'.op \in {"get_account_balance", "get_current_price"}
        /\ call'.outbound = 1
        /\ call'.out \in {"rate_limit", "api_error", "exception"})
       => /\ ~call'.raised
          /\ call'.result =
                (IF call'.op = "get_account_balance"
                 THEN gw.balance_cache.balance
                 ELSE IF gw.price_cache[call'.symbol].cached
                 THEN gw.price_cache[call'.symbol].price
                 ELSE 0)
          /\ gw'.balance_cache = gw.balance_cache
          /\ gw'.price_cache = gw.price_cache]_vars

\* C20 (as stated): for each configured pair startup reconciliation acts
\* by the four-case table.  Exchange and store both without a position, or
\* both with one: neither store nor exchange changes and no notification
\* is sent.  A position on the exchange only (orphan): it is closed by one
\* order on the exchange and one notification is sent.  A position in the
\* store only (stale): it is removed from the store and one notification
\* is sent.
C20_FourCaseTable ==
    [][(rpc = "pair" /\ ridx <= Len(pairs_list) /\ <<rpc, ridx>>' # <<rpc, ridx>>) =>
          LET pair       == pairs_list[ridx]
              onExchange == exPos[pair] # 0
              inStore    == \E q \in positions : q.pair = pair
          IN  IF onExchange = inStore
              THEN /\ positions' = positions
                   /\ exPos' = exPos
                   /\ rpc' = "pair"
              ELSE IF onExchange
              THEN /\ exPos' = [exPos EXCEPT ![pair] = 0]
                   /\ positions' = positions
                   /\ rpc' = "r_notify"
              ELSE /\ positions' = {q \in positions : q.pair # pair}
                   /\ exPos' = exPos
                   /\ rpc' = "r_notify"]_vars

\* C22 (as stated): validate_trade always evaluates all ten checks and
\* returns a report; approved is TRUE exactly when every check passed;
\* blocked_reason is present exactly when approved is FALSE, and is then the
\* reasons of exactly the failing checks, in order, joined by "; ".
C22_TenChecksAggregated ==
    sg.called =>
        LET r     == sg.result.report
            fails == SelectSeq(r.checks, LAMBDA c : ~c.passed)
        IN  /\ ~sg.result.raised
            /\ sg.result.evaluated = 10
            /\ Len(r.checks) = 10
            /\ \A i \in 1..Len(r.checks) : r.checks[i].check_name = CheckNames[i]
            /\ r.approved = (\A i \in 1..Len(r.checks) : r.checks[i].passed)
            /\ r.has_reason = ~r.approved
            /\ ~r.approved =>
                  /\ Len(r.blocked_reason) = 2 * Len(fails) - 1
                  /\ \A i \in 1..Len(fails) :
                        r.blocked_reason[2 * i - 1] =
                            <<fails[i].check_name, fails[i].reason>>
                  /\ \A i \in 1..(Len(fails) - 1) :
                        r.blocked_reason[2 * i] = <<"; ", "">>

\* C23 (as stated): when a read of a check raises, the daily-trade-limit,
\* position-spacing and consecutive-losses checks pass, the
\* portfolio-exposure and drawdown checks fail; no trade is approved while
\* the balance, the open positions or the initial capital cannot be read;
\* and validate_trade returns a report, it does not raise.
C23_ReadFailurePolicy ==
    sg.called =>
        LET a == sg.ambient
            r == sg.result.report
        IN  /\ ~sg.result.raised
            /\ Len(r.checks) = 10
            /\ ~a.counter_ok => r.checks[8].passed
            /\ ~a.spacing_read_ok => r.checks[9].passed
            /\ ~a.trades_ok => r.checks[10].passed
            /\ (~a.balance_ok \/ ~a.exposure_read_ok) => ~r.checks[6].passed
            /\ (~a.balance_ok \/ ~a.capital_ok) => ~r.checks[7].passed
            /\ (~a.balance_ok \/ ~a.capital_ok \/ ~a.slots_read_ok
                  \/ ~a.exposure_read_ok) => ~r.approved

\* C21: in reconcile_positions, whatever happens while one pair is handled
\* (the position query raises, the closing order fails, the store delete
\* raises, the notification is not delivered), the for loop goes on with the
\* next pair, so that every configured pair has been handled when
\* reconcile_positions returns after a successful read of the store; and
\* reconcile_positions always returns to main, which then starts the loops.
C21_PairFailuresIsolated ==
    /\ [][/\ (rpc = "pair" /\ ridx <= Len(pairs_list) /\ <<rpc, ridx>>' # <<rpc, ridx>>)
             => \/ rpc' = "pair" /\ ridx' = ridx + 1
                \/ rpc' = "r_notify" /\ ridx' = ridx
          /\ (rpc = "r_notify" /\ <<rpc, ridx>>' # <<rpc, ridx>>)
             => rpc' = "pair" /\ ridx' = ridx + 1
          /\ (rpc = "failed_notify" /\ rpc' # rpc) => rpc' = "done"]_vars
    /\ [](/\ rpc \in {"start", "pair", "r_notify", "failed_notify", "done"}
          /\ (rpc = "done" /\ notes # <<"reconciliation_failed">>)
                => ridx = Len(pairs_list) + 1
          /\ pc = "off" => rpc # "done" \/ ENABLED StartLoops
          /\ pc # "off" => rpc = "done")

\* the first pair's stale Position is still in the store (its query or its
\* store delete raised), the second pair was reconciled and notified, and
\* the loop has been started
C21_Witness ==
    /\ rpc = "done"
    /\ pc = "sleep"
    /\ ridx = Len(pairs_list) + 1
    /\ exPos[pairs_list[1]] = 0
    /\ \E q \in positions : q.pair = pairs_list[1]
    /\ exPos[pairs_list[2]] = 0
    /\ ~\E q \in positions : q.pair = pairs_list[2]
    /\ notes = <<"reconciliation">>

\* C24 (as stated): in the open sequence the fallback stop-loss (3 % away
\* from the price) replaces the signal's stop-loss exactly when that is
\* missing or <= 0, and the persisted Position's stop_loss is then below its
\* entry_price for LONG and above it for SHORT; a signal stop-loss > 0 is
\* persisted unchanged.
C24_FallbackStopBeyondEntry ==
    exe.outcome = "opened" =>
        \A p \in positions :
            p.position_id = exe.position_id =>
                IF exe.stop_loss <= 0
                THEN /\ p.side = "LONG" =>
                          /\ p.stop_loss = RoundHalfEven(exe.current_price * 97, 100)
                          /\ p.stop_loss < p.entry_price
                     /\ p.side = "SHORT" =>
                          /\ p.stop_loss = RoundHalfEven(exe.current_price * 103, 100)
                          /\ p.stop_loss > p.entry_price
                ELSE p.stop_loss = exe.stop_loss

\* C25 (as stated): each Position closed by the close sequence produces
\* exactly one Trade: at most one Trade is ever saved per position_id, also
\* when the close sequence is entered again on a later tick after the store
\* failed between saving the Trade and removing the Position; and a Position
\* the close sequence has removed from the store has its Trade saved.
C25_OneTradePerPosition ==
    /\ \A i \in 1..Len(trades), j \in 1..Len(trades) :
          trades[i].position_id = trades[j].position_id => i = j
    /\ (cls.called /\ \A p \in positions : p.position_id # cls.position_id) =>
          \E i \in 1..Len(trades) : trades[i].position_id = cls.position_id

\* C26: a notification that cannot be delivered never changes a trading
\* outcome.  Every send_message call of the breakers, of the open and close
\* sequences and of reconcile_positions returns without raising after at
\* most one delivery attempt, leaves the store, the exchange and the loop's
\* counters as they were, and hands control to the same continuation
\* whatever became of the delivery: the breaker to its cooldown, the open
\* sequence to the next pair, the close sequence to the next position,
\* reconcile_positions to the next pair or to its end.
C26_DeliveryFailureHarmless ==
    [][((pc \in NotifyPcs /\ pc' # pc) \/ (rpc \in {"r_notify", "failed_notify"} /\ rpc' # rpc)) =>
          /\ tg'.last.called
          /\ ~tg'.last.raised
          /\ tg'.last.attempts <= 1
          /\ tg'.last.result => (tg.initialized /\ tg'.last.attempts = 1)
          /\ positions' = positions
          /\ trades' = trades
          /\ exPos' = exPos
          /\ consecutive_losses' = consecutive_losses
          /\ daily_trades_count' = daily_trades_count
          /\ attempted_signals' = attempted_signals
          /\ pc' = CASE pc = "dd_notify" -> "dd_sleep"
                     [] pc = "cl_notify" -> "cl_sleep"
                     [] pc \in {"slip_notify", "fail_notify", "open_notify"} -> "check"
                     [] pc = "close_notify" -> "monitor"
                     [] OTHER -> pc
          /\ pc \in {"slip_notify", "fail_notify", "open_notify"} => idx' = idx + 1
          /\ rpc' = CASE rpc = "r_notify" -> "pair"
                      [] rpc = "failed_notify" -> "done"
                      [] OTHER -> rpc
          /\ rpc = "r_notify" => ridx' = ridx + 1]_vars

\* a notification of the open sequence failed to be delivered, or was not
\* attempted for want of a configuration, and the loop went on to the next
\* pair with the Position it had opened
C26_Witness ==
    /\ pc = "check"
    /\ exe.outcome = "opened"
    /\ tg.last.called
    /\ ~tg.last.result
    /\ \E p \in positions : p.position_id = exe.position_id

\* C27: a signal check_signals executes is in the attempted set before the
\* gateway is asked to place its order, and is still there when
\* execute_signal has returned, whatever the outcome (zero size, no price,
\* slippage, order rejected, exception of the store, opened); an id leaves
\* the attempted set only in the step of check_signals that sees the latest
\* signal of a pair, with that id, stale.
C27_MarkedBeforeExecution ==
    /\ [](pc = "execute" => signals[pairs_list[idx]].id \in attempted_signals)
    /\ [][/\ (pc = "execute" /\ pc' # "execute") =>
                /\ exe'.called
                /\ exe'.signal_id = signals[pairs_list[idx]].id
                /\ exe'.signal_id \in attempted_signals'
          /\ \A id \in attempted_signals \ attempted_signals' :
                /\ pc = "check"
                /\ idx <= Len(pairs_list)
                /\ signals[pairs_list[idx]].id = id
                /\ signals[pairs_list[idx]].age = "stale"]_vars

\* an execution that placed no position (aborted or failed) has returned
\* and its signal is in the attempted set
C27_Witness ==
    /\ exe.called
    /\ exe.outcome \in {"zero_size", "no_price", "slippage", "order_failed", "store_error"}
    /\ exe.signal_id \in attempted_signals
    /\ pc = "check"

\* C28 (as stated): a signal is not executed a second time after the
\* process has crashed and restarted: execute_signal runs at most once per
\* signal id, at most one order is accepted by the exchange for it, and at
\* most one Position is ever saved that references it.
C28_NoSecondExecutionAfterRestart ==
    \A id \in DOMAIN made :
        /\ execCount[id] <= 1
        /\ made[id].orders <= 1
        /\ made[id].positions <= 1

\* C29 (as stated): an exception raised while one pair is handled in
\* check_signals, or one position in monitor_positions, does not keep the
\* remaining pairs and positions from being handled in the same tick: the
\* step of a pair leads to the next pair or to that pair's execution, the
\* step of a position to the next position or to its close notification;
\* and the loop is never left: every sleep is followed by the next tick.
C29_FailuresStayInsideTheirPair ==
    /\ [][/\ (pc = "check" /\ idx <= Len(pairs_list) /\ pc' # pc) => pc' = "execute"
          /\ (pc = "check" /\ idx <= Len(pairs_list) /\ pc' = pc) => idx' = idx + 1
          /\ (pc = "monitor" /\ monLeft # {}) => pc' \in {"monitor", "close_notify"}]_vars
    /\ [](pc \in SleepPcs => ENABLED Wake)

\* C30 (as stated): every open position is monitored on every tick, also
\* on the ticks on which the drawdown, consecutive-loss or daily-limit
\* breaker is tripped: with positions open in the store, a tick goes to a
\* breaker's cooldown only from the end of monitor_positions, once every
\* position of its snapshot has been looked at.
C30_MonitoredWhileBreakerTripped ==
    [][(pc \notin SleepPcs /\ pc' \in {"dd_sleep", "cl_sleep", "daily_sleep"}
          /\ positions # {}) =>
          (pc = "monitor" /\ monLeft = {})]_vars

\* C31 (as stated): when several close triggers hold for a position on one
\* tick, the position is closed once and the exit_reason recorded on the
\* Trade is the first trigger that matched, in the order stop-loss,
\* take-profit, opposing signal.
C31_FirstMatchedReason ==
    [][(pc = "monitor" /\ monLeft' # monLeft /\ cls'.called) =>
          \A p \in monLeft \ monLeft' :
             LET price  == cls'.price
                 latest == signals[p.pair]
                 sl  == /\ p.stop_loss > 0
                        /\ \/ p.side = "LONG" /\ price <= p.stop_loss
                           \/ p.side = "SHORT" /\ price >= p.stop_loss
                 tp  == /\ p.take_profit > 0
                        /\ \/ p.side = "LONG" /\ price >= p.take_profit
                           \/ p.side = "SHORT" /\ price <= p.take_profit
                 first == IF sl THEN "SL" ELSE IF tp THEN "TP" ELSE "SIGNAL"
             IN  /\ cls'.reason = first
                 /\ Len(trades') <= Len(trades) + 1
                 /\ Len(trades') = Len(trades) + 1 =>
                       /\ trades'[Len(trades')].position_id = p.position_id
                       /\ trades'[Len(trades')].exit_reason = first
                       /\ \A i \in 1..Len(trades) : trades[i].position_id # p.position_id]_vars

\* C32 (as stated): monitor_positions starts the close sequence for a
\* position exactly when the price is available and a trigger holds: for a
\* LONG price <= stop_loss (stop_loss > 0), price >= take_profit
\* (take_profit > 0) or a fresh SELL signal with confidence >= 60 for the
\* pair; for a SHORT price >= stop_loss, price <= take_profit or a fresh
\* BUY signal.  Otherwise the position, the trades and the counters stay as
\* they are.
C32_ClosesIffTriggered ==
    [][(pc = "monitor" /\ monLeft' # monLeft) =>
          \A p \in monLeft \ monLeft' :
             LET price  == cls'.price
                 latest == signals[p.pair]
                 sl  == /\ p.stop_loss > 0
                        /\ \/ p.side = "LONG" /\ price <= p.stop_loss
                           \/ p.side = "SHORT" /\ price >= p.stop_loss
                 tp  == /\ p.take_profit > 0
                        /\ \/ p.side = "LONG" /\ price >= p.take_profit
                           \/ p.side = "SHORT" /\ price <= p.take_profit
                 sig == /\ latest.id # 0
                        /\ latest.age = "fresh"
                        /\ latest.confidence >= 60
                        /\ \/ p.side = "LONG" /\ latest.action = "SELL"
                           \/ p.side = "SHORT" /\ latest.action = "BUY"
             IN  /\ cls'.called <=> (price # 0 /\ (sl \/ tp \/ sig))
                 /\ ~cls'.called =>
                       /\ positions' = positions
                       /\ trades' = trades
                       /\ exPos' = exPos
                       /\ consecutive_losses' = consecutive_losses
                       /\ daily_trades_count' = daily_trades_count]_vars

\* C33: every successful close adds exactly 1 to daily_trades_count and
\* sets consecutive_losses to its previous value + 1 when the net pnl
\* (gross pnl minus the fee of 0.04 % of the size on each side) is < 0, and
\* to 0 otherwise.  No other step changes the two counters, except the end
\* of the consecutive-loss cooldown (consecutive_losses back to 0) and the
\* daily reset at the top of a tick (daily_trades_count back to 0): the
\* consecutive-loss counter is the number of net-loss closes since the last
\* close without a net loss or the last breaker reset.
C33_CountersFollowCloses ==
    [][IF pc = "monitor" /\ monLeft' # monLeft /\ cls'.called /\ cls'.success
       THEN \A p \in monLeft \ monLeft' :
               LET gross == IF p.side = "LONG"
                            THEN (cls'.price - p.entry_price) * p.quantity
                            ELSE (p.entry_price - cls'.price) * p.quantity
                   \* the fee is size * 0.0008 = size / 1250
                   loss  == \/ gross < p.size \div 1250
                            \/ gross = p.size \div 1250 /\ p.size % 1250 # 0
               IN  /\ daily_trades_count' = daily_trades_count + 1
                   /\ consecutive_losses' = IF loss THEN consecutive_losses + 1 ELSE 0
       ELSE /\ \/ consecutive_losses' = consecutive_losses
               \/ pc = "cl_sleep" /\ pc' = "tick" /\ consecutive_losses' = 0
            /\ \/ daily_trades_count' = daily_trades_count
               \/ pc = "tick" /\ daily_trades_count' = 0]_vars

\* a close without a net loss has just reset a counter that stood at 1 or
\* more, after two closes on the day
C33_Witness ==
    /\ cls.called
    /\ cls.success
    /\ cls.net_sign >= 0
    /\ consecutive_losses = 0
    /\ daily_trades_count >= 2
    /\ Len(trades) >= 2
    /\ trades[Len(trades) - 1].net_sign < 0

\* C34 (as stated): a tick that starts with the daily trade counter at its
\* configured cap (settings.max_trades_per_day = 8) does no signal intake
\* and opens nothing; the counter goes back to 0 only at the top of a tick,
\* when the date has changed; and the counter is never raised above the cap.
C34_DailyCapHolds ==
    [][/\ (pc = "tick" /\ pc' # pc /\ daily_trades_count' >= 8) =>
             pc' \notin {"check", "execute"}
       /\ (pc \in {"check", "execute"} /\ daily_trades_count >= 8) =>
             positions' \subseteq positions
       /\ daily_trades_count' < daily_trades_count =>
             (pc = "tick" /\ daily_trades_count' = 0)
       /\ daily_trades_count' > daily_trades_count => daily_trades_count' <= 8]_vars

\* C35 (as stated): the safeguard's daily-trade-limit check counts the
\* trades executed today.  The counter it reads, the store key
\* trades:daily_count:<today>, equals the execution loop's
\* daily_trades_count, and the check fails exactly when that count has
\* reached settings.max_trades_per_day.
C35_SafeguardCountsTrades ==
    /\ daily_count_key = daily_trades_count
    /\ check_daily_trade_limit([counter_ok |-> TRUE,
                                daily_count |-> daily_count_key]).passed
          <=> daily_trades_count < 8

\* C36 (as stated): when the signal's proposed size is below the minimum
\* order notional of 100 USDT, the order that is placed has a notional
\* (quantity sent times the current price) of at least 100 USDT and the
\* executed Position's size is at least that floor; a proposed size of 100
\* USDT or more is used as it is (the order's notional is within one
\* quantity step of it).
C36_MinNotionalFloor ==
    (exe.called /\ exe.ordered /\ made[exe.signal_id].orders = 1) =>
        LET sent     == Abs(exPos[exe.pair])
            notional == sent * exe.current_price
        IN  IF exe.position_size < 10000
            THEN /\ notional >= 10000 * 10000
                 /\ \A p \in positions :
                       p.position_id = exe.position_id => p.size >= 10000 * 10000
            ELSE Abs(notional - exe.position_size * 10000) < 10 * exe.current_price

\* C37 (as stated): one invocation of place_market_order leads to at most
\* one order accepted by the exchange, whatever its attempts do, lost
\* responses (the error raised after the exchange accepted the order)
\* included.
C37_AtMostOneOrderAccepted ==
    ord.called => ord.result.accepted <= 1

\* C38 (as stated): after execute_signal has returned, the store holds a
\* Position for the signal's pair exactly when the order execute_signal
\* placed was filled on the exchange, whatever the parsing of the fill and
\* the store write did; and every persisted Position has quantity > 0 and
\* entry_price > 0.
C38_PositionIffFilled ==
    /\ exe.called =>
          ((\E p \in positions : p.pair = exe.pair)
              <=> made[exe.signal_id].orders >= 1)
    /\ \A p \in positions : p.quantity > 0 /\ p.entry_price > 0

C40_UnavailableBalanceNoTrip ==
    (pc = "dd_notify" /\ call.op = "get_account_balance") =>
        /\ \/ call.outbound = 1 /\ call.out = "ok"
           \/ /\ call.out # "no_usdt" \/ call.outbound = 0
              /\ gw.balance_cache.ts > 0
              /\ call.result = gw.balance_cache.balance
        /\ (initial_capital - call.result) * 10000 > 2000 * initial_capital

====
